---- MODULE Spec2Model ----
(***************************************************************************)
(* Model of the WhatsApp gateway: the session manager                      *)
(* (whatsapp.service.ts), the persistent pairing-code service              *)
(* (persistent-qr.service.ts) and the webhook dispatcher                   *)
(* (webhook.service.ts) with the event wiring of server.ts.                *)
(*                                                                         *)
(* Granularity: JavaScript runs a handler to completion; a handler gives   *)
(* up control only at an await of a genuinely asynchronous operation (a    *)
(* network call, a timer, a stream).  Each action below is one such        *)
(* run-to-completion segment; awaits of functions whose body is            *)
(* synchronous are folded into the segment.                                *)
(***************************************************************************)
EXTENDS Integers, Sequences, FiniteSets, TLC

(***************************************************************************)
(* Bounds of the model.                                                    *)
(***************************************************************************)
MaxTicks == 3
MaxObjects == 2

(***************************************************************************)
(* Program constants.                                                      *)
(***************************************************************************)
DedupWindowMs == 600000
MaxWebhookRetries == 2
RetryBaseMs == 1000
RetryCapMs == 5000

Tenants == {"t1"}
MsgIds == {"m1"}
Jids == {"j1", "j2", "j3"}

Null == "null"
Absent == -1
NoWebhook == [obj |-> 0]

\* The granularity of the model's clock.
TickMs == DedupWindowMs \div 2

Min(a, b) == IF a < b THEN a ELSE b

RECURSIVE Pow2(_)
Pow2(n) == IF n <= 0 THEN 1 ELSE 2 * Pow2(n - 1)

VARIABLES
  webhooks,            \* WebhookService.webhooks of the instance server.ts
                       \* creates and wires to the session manager's
                       \* events: tenant -> sink | NoWebhook
  routeWebhooks,       \* WebhookService.webhooks of the instance
                       \* webhookRoutes creates for the public routes
  nextObj,             \* allocation counter of sink objects
  sentMessages,        \* WebhookService.sentMessages: key -> timestamp
  processedMessages,   \* WhatsAppService.processedMessages
  inflight,            \* sendWebhook calls that have not returned yet
  deliveryLog,         \* history: every delivery started, with the sink
                       \* it posts to, its outcome, how the dispatcher
                       \* call that started it ended and what the route
                       \* that made the call answered
  skipped,             \* history: duplicates dropped by the dispatcher
  lostRetries,         \* history: notifications the adapter-side filter
                       \* dropped although the dispatcher allowed a retry
  now                  \* Date.now(), in ms

whVars == <<webhooks, routeWebhooks, nextObj, sentMessages,
            processedMessages, inflight, deliveryLog, skipped, lostRetries,
            now>>

VARIABLES
  maxReconnectAttempts, \* config.MAX_RECONNECT_ATTEMPTS
  sessions,            \* WhatsAppService.sessions: tenant -> session
  credDir,             \* <sessionDir>/<tenantId>: "absent", "empty", "creds"
  sockets,             \* adapter handles that can still raise updates
  nextSock,            \* number of handles created so far
  nextSid,             \* number of session objects created so far
  tasks,               \* async calls suspended at an await
  timers,              \* pending reconnect timers (setTimeout)
  qrSessions,          \* PersistentQRService.qrSessions: tenant -> tracker
  intervals,           \* PersistentQRService.regenerationIntervals
  expected,            \* history: the status the transition table of the
                       \* design gives for the last update delivered, when
                       \* that was a pairing code or an open
  proc,                \* the process: "running", "stopping", "exited"
  emitted,             \* the event the last handler emitted for a tenant
                       \* (EventEmitter.emit), "none" if it emitted none
  signing,             \* a payload on its way from the dispatcher, which
                       \* signs it, to a receiver, which verifies it
  bulk,                \* the call of POST /messages/:tenantId/send-bulk
                       \* under way: its loop index, its results so far
                       \* and the times of its sends
  dedup                \* WebhookService.sentMessages of an instance that
                       \* serves several tenants, with the history of the
                       \* messages it recorded and of those it dropped

seVars == <<maxReconnectAttempts, sessions, credDir, sockets, nextSock,
            nextSid, tasks, timers, qrSessions, intervals,
            expected, proc, emitted, signing, bulk, dedup>>

vars == <<whVars, seVars>>

(***************************************************************************)
(* Webhook dispatcher                                                      *)
(***************************************************************************)

\* `${tenantId}_${messageId}`
MessageKey(t, m) == t \o "_" \o m

\* `${tenantId}_${message.key.remoteJid}_${message.key.id}`
ProcessedKey(t, jid, id) == t \o "_" \o jid \o "_" \o id

AllKeys == {MessageKey(t, m) : t \in Tenants, m \in MsgIds}

isMessageAlreadySent(sent, t, m) == sent[MessageKey(t, m)] # Absent

MarkMessageAsSent_NoPrecommit(sent, t, m, ts) == sent

markMessageAsSent(sent, t, m, ts) == [sent EXCEPT ![MessageKey(t, m)] = ts]

\* The adapter's inbound messages: key.fromMe, key.id (possibly empty),
\* key.remoteJid and the content: "none" (message.message is null),
\* "empty" (no text), "media" (an image, video or document without text) or
\* "text".
Msg(id, jid, fromMe, content) ==
  [id |-> id, remoteJid |-> jid, fromMe |-> fromMe, content |-> content]

TextMessages == {Msg(id, jid, FALSE, "text") : id \in MsgIds, jid \in Jids}

Messages ==
  TextMessages \cup
  {Msg("m1", "j1", TRUE, "text"), Msg("m1", "j1", FALSE, "none"),
   Msg("m1", "j2", FALSE, "empty"), Msg("", "j1", FALSE, "text")}

Batches == {<<m>> : m \in Messages} \cup
           {<<m1, m2>> : m1 \in TextMessages, m2 \in TextMessages}

DeliveriesOf(log, t, m) == {d \in log : d.tenant = t /\ d.messageId = m}

\* processIncomingMessage up to its first await (the POST): dedup check,
\* sink check, precommit of the dedup key, start of sendWebhook.
processIncomingMessage(st, t, m) ==
  IF isMessageAlreadySent(st.sent, t, m)
  THEN [st EXCEPT !.skipped = @ \cup {<<t, m>>}]
  ELSE IF webhooks[t] = NoWebhook \/ ~webhooks[t].active
          \/ "message" \notin webhooks[t].events
  THEN st
  ELSE LET n == Cardinality(DeliveriesOf(st.log, t, m)) + 1
       IN [st EXCEPT
             !.sent = markMessageAsSent(@, t, m, now),
             !.inflight = @ \cup {[tenant |-> t, messageId |-> m,
                                   event |-> "message",
                                   obj |-> webhooks[t].obj,
                                   sink |-> webhooks[t].id, n |-> n,
                                   retryCount |-> 0, phase |-> "posting",
                                   delay |-> 0, start |-> now]},
             !.log = @ \cup {[tenant |-> t, messageId |-> m,
                              event |-> "message", start |-> now, n |-> n,
                              sink |-> webhooks[t].id,
                              outcome |-> "inflight", call |-> "pending",
                              response |-> "none"]}]

\* The dispatcher would forward message m of tenant t if it were notified:
\* an earlier delivery failed on every attempt, its dedup entry is gone and
\* the tenant's sink takes messages.
RetryAllowed(st, t, m) ==
  /\ DeliveriesOf(st.log, t, m) # {}
  /\ \A d \in DeliveriesOf(st.log, t, m) : d.outcome = "failed"
  /\ ~isMessageAlreadySent(st.sent, t, m)
  /\ webhooks[t] # NoWebhook
  /\ webhooks[t].active
  /\ "message" \in webhooks[t].events

\* One iteration of the loop of handleIncomingMessages, with the 'message'
\* listener of server.ts run synchronously by emit; events collects the
\* entries emitted as message events.
handleOneMessage(st, t, msg) ==
  IF msg.fromMe \/ msg.content = "none" \/ msg.id = ""
  THEN st
  ELSE IF ProcessedKey(t, msg.remoteJid, msg.id) \in st.processed
  THEN IF RetryAllowed(st, t, msg.id)
       THEN [st EXCEPT !.lost = @ \cup {<<t, msg.id>>}]
       ELSE st
  ELSE LET st1 == [st EXCEPT !.processed =
                      @ \cup {ProcessedKey(t, msg.remoteJid, msg.id)}]
       IN IF msg.content # "text"
          THEN st1
          ELSE processIncomingMessage(
                 [st1 EXCEPT !.events = Append(@, msg)], t, msg.id)

RECURSIVE handleIncomingMessagesLoop(_, _, _)
handleIncomingMessagesLoop(st, t, msgs) ==
  IF msgs = <<>> THEN st
  ELSE handleIncomingMessagesLoop(handleOneMessage(st, t, Head(msgs)),
                                  t, Tail(msgs))

\* The state handleIncomingMessages and the listener work on, with no
\* event emitted yet.
DispatchState ==
  [sent |-> sentMessages, processed |-> processedMessages,
   inflight |-> inflight, log |-> deliveryLog, skipped |-> skipped,
   lost |-> lostRetries, events |-> <<>>]

\* socket.ev.on('messages.upsert') with type 'notify'
HandleIncomingMessages(t, msgs) ==
  /\ LET st == handleIncomingMessagesLoop(DispatchState, t, msgs)
     IN /\ sentMessages' = st.sent
        /\ processedMessages' = st.processed
        /\ inflight' = st.inflight
        /\ deliveryLog' = st.log
        /\ skipped' = st.skipped
        /\ lostRetries' = st.lost
  /\ UNCHANGED <<webhooks, routeWebhooks, nextObj, now>>
  /\ UNCHANGED seVars

\* WebhookService.registerWebhook on the registry reg of an instance: the
\* sink of the tenant is replaced by a new object that keeps the id and
\* the counters of the old one.
Registered_NewSink(reg, t, events, obj) ==
  [reg EXCEPT ![t] = [obj |-> obj, id |-> obj, active |-> TRUE,
                      events |-> events, successCount |-> 0,
                      errorCount |-> 0]]

Registered(reg, t, events, obj) ==
  [reg EXCEPT ![t] =
     IF reg[t] # NoWebhook
     THEN [obj |-> obj, id |-> reg[t].id, active |-> TRUE,
           events |-> events,
           successCount |-> reg[t].successCount,
           errorCount |-> reg[t].errorCount]
     ELSE [obj |-> obj, id |-> obj, active |-> TRUE,
           events |-> events, successCount |-> 0, errorCount |-> 0]]

\* autoRegisterWebhook of server.ts -> registerWebhook
registerWebhook(t, events) ==
  /\ nextObj < MaxObjects
  /\ nextObj' = nextObj + 1
  /\ webhooks' = Registered(webhooks, t, events, nextObj + 1)
  /\ UNCHANGED <<routeWebhooks, sentMessages, processedMessages, inflight,
                 deliveryLog, skipped, lostRetries, now>>
  /\ UNCHANGED seVars

\* POST /webhooks/register/:tenantId -> registerWebhook of the instance of
\* the routes
RegisterSink(t, events) ==
  /\ nextObj < MaxObjects
  /\ nextObj' = nextObj + 1
  /\ routeWebhooks' = Registered(routeWebhooks, t, events, nextObj + 1)
  /\ UNCHANGED <<webhooks, sentMessages, processedMessages, inflight,
                 deliveryLog, skipped, lostRetries, now>>
  /\ UNCHANGED seVars

\* DELETE /webhooks/:tenantId/:webhookId -> removeWebhook of the instance
\* of the routes
removeWebhook(t) ==
  /\ routeWebhooks[t] # NoWebhook
  /\ routeWebhooks' = [routeWebhooks EXCEPT ![t] = NoWebhook]
  /\ UNCHANGED <<webhooks, nextObj, sentMessages, processedMessages,
                 inflight, deliveryLog, skipped, lostRetries, now>>
  /\ UNCHANGED seVars

\* What the POST can come back with.
PostOutcomes == {"2xx", "4xx", "5xx", "ECONNREFUSED", "ENOTFOUND",
                 "ECONNABORTED", "ECONNRESET"}

\* validateStatus: (status) => status < 500
PostSucceeds(o) == o \in {"2xx", "4xx"}

ShouldRetry_AnyError(o) == TRUE

shouldRetry(o) == o \in {"5xx", "ECONNREFUSED", "ENOTFOUND", "ECONNABORTED"}

RetryDelay(retryCount) == Min(RetryBaseMs * Pow2(retryCount), RetryCapMs)

\* The counters live on the sink object the call captured; a sink object
\* that registerWebhook has replaced is no longer the one in the map.
BumpCounter(reg, t, obj, field) ==
  IF reg[t].obj = obj
  THEN [reg EXCEPT ![t] = [@ EXCEPT ![field] = @ + 1]]
  ELSE reg

\* The delivery d ends with outcome o; the dispatcher call that started it
\* returns or throws, and the route that made the call answers.
SetOutcome(log, d, o, call, response) ==
  {IF e.tenant = d.tenant /\ e.messageId = d.messageId /\ e.n = d.n
   THEN [e EXCEPT !.outcome = o, !.call = call, !.response = response]
   ELSE e : e \in log}

\* sendWebhook from the answer of axios.post to its next await or its return,
\* and the rest of processIncomingMessage when it returns or throws.
SendWebhookResult(d, o) ==
  /\ d \in inflight
  /\ d.event = "message"
  /\ d.phase = "posting"
  /\ IF PostSucceeds(o)
     THEN /\ webhooks' = BumpCounter(webhooks, d.tenant, d.obj,
                                     "successCount")
          /\ inflight' = inflight \ {d}
          /\ deliveryLog' = SetOutcome(deliveryLog, d, "ok", "returned",
                                       "none")
          /\ UNCHANGED sentMessages
     ELSE /\ webhooks' = BumpCounter(webhooks, d.tenant, d.obj, "errorCount")
          /\ IF d.retryCount < MaxWebhookRetries /\ shouldRetry(o)
             THEN /\ inflight' = (inflight \ {d}) \cup
                       {[d EXCEPT !.phase = "backoff",
                                  !.delay = RetryDelay(d.retryCount)]}
                  /\ UNCHANGED <<deliveryLog, sentMessages>>
             ELSE /\ inflight' = inflight \ {d}
                  /\ deliveryLog' = SetOutcome(deliveryLog, d, "failed",
                                               "returned", "none")
                  /\ sentMessages' =
                       [sentMessages EXCEPT
                          ![MessageKey(d.tenant, d.messageId)] = Absent]
  /\ UNCHANGED <<routeWebhooks, nextObj, processedMessages, skipped,
                 lostRetries, now>>
  /\ UNCHANGED seVars

\* The backoff timer of sendWebhook fires: the recursive call posts again.
SendWebhookRetry(d) ==
  /\ d \in inflight
  /\ d.phase = "backoff"
  /\ inflight' = (inflight \ {d}) \cup
        {[d EXCEPT !.phase = "posting", !.retryCount = @ + 1, !.delay = 0]}
  /\ UNCHANGED <<webhooks, routeWebhooks, nextObj, sentMessages,
                 processedMessages, deliveryLog, skipped, lostRetries, now>>
  /\ UNCHANGED seVars

StatusCalls(log, t) ==
  {e \in log : e.tenant = t /\ e.event = "status_change"}

\* POST /webhooks/internal/status -> processStatusChange of the instance of
\* the routes, up to the await of the POST in sendWebhook.  Without a sink
\* that takes status events the call returns at once and the route
\* answers 200.
processStatusChange(t) ==
  /\ routeWebhooks[t] # NoWebhook
  /\ routeWebhooks[t].active
  /\ "status" \in routeWebhooks[t].events
  /\ LET n == Cardinality(StatusCalls(deliveryLog, t)) + 1
     IN /\ inflight' = inflight \cup
              {[tenant |-> t, messageId |-> Null, event |-> "status_change",
                obj |-> routeWebhooks[t].obj, sink |-> routeWebhooks[t].id,
                n |-> n, retryCount |-> 0, phase |-> "posting",
                delay |-> 0, start |-> now]}
        /\ deliveryLog' = deliveryLog \cup
              {[tenant |-> t, messageId |-> Null, event |-> "status_change",
                start |-> now, n |-> n, sink |-> routeWebhooks[t].id,
                outcome |-> "inflight", call |-> "pending",
                response |-> "pending"]}
  /\ UNCHANGED <<webhooks, routeWebhooks, nextObj, sentMessages,
                 processedMessages, skipped, lostRetries, now>>
  /\ UNCHANGED seVars

\* sendWebhook of a status change from the answer of axios.post to its next
\* await or its return; when it returns processStatusChange returns and the
\* route answers 200, when it throws processStatusChange throws and the
\* route answers 500.
StatusWebhookResult(d, o) ==
  /\ d \in inflight
  /\ d.event = "status_change"
  /\ d.phase = "posting"
  /\ IF PostSucceeds(o)
     THEN /\ routeWebhooks' = BumpCounter(routeWebhooks, d.tenant, d.obj,
                                          "successCount")
          /\ inflight' = inflight \ {d}
          /\ deliveryLog' = SetOutcome(deliveryLog, d, "ok", "returned",
                                       "200")
     ELSE /\ routeWebhooks' = BumpCounter(routeWebhooks, d.tenant, d.obj,
                                          "errorCount")
          /\ IF d.retryCount < MaxWebhookRetries /\ shouldRetry(o)
             THEN /\ inflight' = (inflight \ {d}) \cup
                       {[d EXCEPT !.phase = "backoff",
                                  !.delay = RetryDelay(d.retryCount)]}
                  /\ UNCHANGED deliveryLog
             ELSE /\ inflight' = inflight \ {d}
                  /\ deliveryLog' = SetOutcome(deliveryLog, d, "failed",
                                               "threw", "500")
  /\ UNCHANGED <<webhooks, nextObj, sentMessages, processedMessages,
                 skipped, lostRetries, now>>
  /\ UNCHANGED seVars

\* The interval of startMessageCacheCleanup fires.
MessageCacheCleanup ==
  /\ \E k \in AllKeys : sentMessages[k] # Absent
  /\ sentMessages' = [k \in AllKeys |->
        IF sentMessages[k] # Absent /\ sentMessages[k] < now - DedupWindowMs
        THEN Absent ELSE sentMessages[k]]
  /\ UNCHANGED <<webhooks, routeWebhooks, nextObj, processedMessages,
                 inflight, deliveryLog, skipped, lostRetries, now>>
  /\ UNCHANGED seVars

\* Time passes by one tick.  A call of sendWebhook lasts at most 3 x 8 s of
\* timeouts and 1 s + 2 s of backoff, so a delivery started before the
\* current tick has returned before the next one begins.
Tick ==
  /\ now < MaxTicks * TickMs
  /\ \A d \in inflight : d.start = now
  /\ now' = now + TickMs
  /\ UNCHANGED <<webhooks, routeWebhooks, nextObj, sentMessages,
                 processedMessages, inflight, deliveryLog, skipped,
                 lostRetries>>
  /\ UNCHANGED seVars

(***************************************************************************)
(* Session manager and pairing-code service                                *)
(***************************************************************************)
MAX_REGENERATIONS == 10

\* regenerateQR re-enters itself through generateQRCode, waitForSessionReady,
\* getSessionStatus and getCurrentQR until the call stack is used up; every
\* one of the nested calls later counts one regeneration.  ReentryDepth
\* stands for the number of nested calls.
ReentryDepth == 11

MaxSessions == 1
MaxSockets == 2
MaxLifecycleSessions == 2
MaxLifecycleSockets == 4

ConfiguredMaxAttempts == {3, 5}

QRs == {"qA"}

\* QRCode.toDataURL
DataUrl(qr) == "data:" \o qr

NoSession == [sid |-> 0]
NoTracker == [tid |-> 0]

NoEvents == [t \in Tenants |-> "none"]

\* The session-manager state as one value, threaded through the
\* synchronous parts of the handlers.  A handler starts with no event
\* emitted.
Cur == [sessions |-> sessions, credDir |-> credDir, sockets |-> sockets,
        nextSock |-> nextSock, nextSid |-> nextSid, tasks |-> tasks,
        timers |-> timers, qrSessions |-> qrSessions,
        intervals |-> intervals, expected |-> expected,
        emitted |-> NoEvents]

Store(st) ==
  /\ sessions' = st.sessions
  /\ credDir' = st.credDir
  /\ sockets' = st.sockets
  /\ nextSock' = st.nextSock
  /\ nextSid' = st.nextSid
  /\ tasks' = st.tasks
  /\ timers' = st.timers
  /\ qrSessions' = st.qrSessions
  /\ intervals' = st.intervals
  /\ expected' = st.expected
  /\ emitted' = st.emitted

\* this.emit(event, tenantId, ...)
Emit(st, t, event) == [st EXCEPT !.emitted[t] = event]

\* A run-to-completion segment ends in state st; a segment that changes
\* nothing is a stuttering step.
Commit(st) == st # Cur /\ Store(st)

\* A write to a field of a session object: it shows only if the object is
\* still the one registered for the tenant.
WriteSession(st, t, sid, fields) ==
  IF st.sessions[t].sid = sid /\ sid # 0
  THEN [st EXCEPT !.sessions[t] =
          [f \in DOMAIN @ |-> IF f \in DOMAIN fields THEN fields[f] ELSE @[f]]]
  ELSE st

WriteTracker(st, t, tid, fields) ==
  IF st.qrSessions[t].tid = tid /\ tid # 0
  THEN [st EXCEPT !.qrSessions[t] =
          [f \in DOMAIN @ |-> IF f \in DOMAIN fields THEN fields[f] ELSE @[f]]]
  ELSE st

\* clearSessionData: fs.rmSync of <sessionDir>/<tenantId>
ClearSessionData_Keep(st, t) == st

clearSessionData(st, t) == [st EXCEPT !.credDir[t] = "absent"]

\* cleanupSession.  A handler still waiting for QRCode.toDataURL holds the
\* session object that leaves the map: what it writes is seen by nobody
\* and its qr event has no listener, so it is dropped here.
cleanupSession(st, t) ==
  [st EXCEPT !.sessions[t] = NoSession,
             !.tasks = {k \in @ : ~(k.kind = "qrRender" /\ k.tenant = t)}]

\* clearTimeout of the timer the map holds for the tenant
clearReconnectTimer(st, t) ==
  [st EXCEPT !.timers = {tm \in @ : ~(tm.tenant = t /\ tm.inMap)}]

\* The transition table of the design: the status after update u of a
\* session that has used up the given number of reconnect attempts.
TableStatus(u, attempts, max) ==
  CASE u.kind = "qr" -> "qr"
    [] u.kind = "open" -> "connected"
    [] u.kind = "close" /\ ~u.loggedOut /\ attempts < max -> "connecting"
    [] OTHER -> "disconnected"

\* An update is delivered to the handler of the tenant's session.  Of the
\* rows of the table the history keeps those of a pairing code and of an
\* open: after a close it holds "none".
Observe(st, t, u, attempts) ==
  [st EXCEPT !.expected[t] =
     IF u.kind = "close" THEN "none"
     ELSE TableStatus(u, attempts, maxReconnectAttempts)]

\* The status is written by something that is not an update.
Impure(st, t) == [st EXCEPT !.expected[t] = "none"]

\* getSessionStatus without the regeneration getCurrentQR may trigger
SessionStatusCore_TrackerOnly(st, t) ==
  LET s == st.sessions[t]
      q == st.qrSessions[t]
      persistentQR == IF q = NoTracker THEN Null ELSE q.qrCode
  IN IF s = NoSession
     THEN [st |-> st,
           resp |-> [connected |-> FALSE, status |-> "not_found",
                     qrCode |-> Null]]
     ELSE [st |-> st,
           resp |-> [connected |-> s.status = "connected",
                     status |-> s.status, qrCode |-> persistentQR]]

sessionStatusCore(st, t) ==
  LET s == st.sessions[t]
      q == st.qrSessions[t]
      persistentQR == IF q = NoTracker THEN Null ELSE q.qrCode
      s1 == IF persistentQR # Null /\ persistentQR # s.qrCode
            THEN [s EXCEPT !.qrCode = persistentQR, !.status = "qr"]
            ELSE s
  IN IF s = NoSession
     THEN [st |-> st,
           resp |-> [connected |-> FALSE, status |-> "not_found",
                     qrCode |-> Null]]
     ELSE [st |-> IF s1 = s THEN st
                  ELSE Impure([st EXCEPT !.sessions[t] = s1], t),
           resp |-> [connected |-> s1.status = "connected",
                     status |-> s1.status,
                     qrCode |-> IF s1.qrCode # Null THEN s1.qrCode
                                ELSE persistentQR]]

\* waitForSessionReady: status.status === 'qr' || status.qrCode
SessionReady(resp) == resp.status = "qr" \/ resp.qrCode # Null

\* regenerateQR up to the first sleep of waitForSessionReady
regenerateQR(st, t) ==
  LET q == st.qrSessions[t]
  IN IF q = NoTracker \/ q.status = "connected"
        \/ q.regenerationCount >= MAX_REGENERATIONS
     THEN st
     ELSE LET r == sessionStatusCore(
                     [st EXCEPT !.qrSessions[t].status = "generating"], t)
          IN IF SessionReady(r.resp)
             THEN [r.st EXCEPT !.qrSessions[t] =
                     [@ EXCEPT !.qrCode = r.st.sessions[t].qrCode,
                               !.stale = FALSE,
                               !.regenerationCount = @ + ReentryDepth,
                               !.status = "available"]]
             ELSE [r.st EXCEPT !.tasks = @ \cup
                     {[kind |-> "regenPoll", tenant |-> t, sid |-> 0,
                       tid |-> q.tid, origin |-> "regen", qr |-> Null,
                       tsid |-> 0]}]

\* getCurrentQR: age > QR_LIFETIME && status !== 'connected'
QRExpired(st, t) ==
  /\ st.qrSessions[t] # NoTracker
  /\ st.qrSessions[t].stale
  /\ st.qrSessions[t].status # "connected"

getSessionStatus(st, t) ==
  IF st.sessions[t] # NoSession /\ QRExpired(st, t)
  THEN [st |-> regenerateQR(st, t), resp |-> sessionStatusCore(st, t).resp]
  ELSE sessionStatusCore(st, t)

\* markAsConnected with stopRegenerationCycle
MarkAsConnected_KeepQR(st, t) ==
  IF st.qrSessions[t] = NoTracker THEN st
  ELSE [st EXCEPT !.qrSessions[t].status = "connected",
                  !.intervals[t] = FALSE]

markAsConnected(st, t) ==
  IF st.qrSessions[t] = NoTracker THEN st
  ELSE [st EXCEPT !.qrSessions[t].status = "connected",
                  !.qrSessions[t].qrCode = Null,
                  !.intervals[t] = FALSE]

Task(kind, t, sid, tid, origin, qr, tsid) ==
  [kind |-> kind, tenant |-> t, sid |-> sid, tid |-> tid, origin |-> origin,
   qr |-> qr, tsid |-> tsid]

\* generateQRCode from a poll of waitForSessionReady on: the tracker and
\* the session of startSession get the artifact when the session is ready.
initialPoll(st, t, sid) ==
  LET r == getSessionStatus(st, t)
  IN IF SessionReady(r.resp)
     THEN LET qr == r.st.sessions[t].qrCode
              st1 == WriteTracker(r.st, t, sid,
                       [qrCode |-> qr, status |-> "available",
                        stale |-> FALSE])
              st2 == [st1 EXCEPT !.intervals[t] = TRUE]
              st3 == WriteSession(st2, t, sid,
                                  [qrCode |-> qr, status |-> "qr"])
          IN [done |-> TRUE,
              st |-> IF st3.sessions[t] = st2.sessions[t] THEN st3
                     ELSE Impure(st3, t)]
     ELSE [done |-> FALSE, st |-> r.st]

\* startSession from the creation of the session object to the await in
\* createBaileysConnection
createSession(st, t) ==
  LET sid == st.nextSid + 1
  IN [st EXCEPT
        !.nextSid = sid,
        !.sessions[t] = [sid |-> sid, status |-> "connecting",
                         qrCode |-> Null,
                         reconnectAttempts |-> 0, socket |-> 0],
        !.expected[t] = "none",
        !.emitted[t] = "session_created",
        !.tasks = @ \cup {Task("connect", t, sid, 0, "start", Null, 0)}]

\* disconnectSession after the logout
disconnectTail(st, t) ==
  cleanupSession(clearSessionData(clearReconnectTimer(st, t), t), t)

SocketLive(st, id) == \E so \in st.sockets : so.id = id

\* disconnectSession up to the await of socket.logout(); the logout of a
\* handle that is closed already fails at once.
disconnectSession(st, t, origin) ==
  LET s == st.sessions[t]
  IN IF s = NoSession THEN [yield |-> FALSE, st |-> st]
     ELSE IF s.socket # 0 /\ SocketLive(st, s.socket)
     THEN [yield |-> TRUE,
           st |-> [st EXCEPT
                     !.sockets = {so \in @ : so.id # s.socket},
                     !.tasks = @ \cup
                        {Task("logout", t, s.sid, 0, origin, Null, 0)}]]
     ELSE [yield |-> FALSE, st |-> disconnectTail(st, t)]

\* min(5000 * 2^(attempts - 1), 30000)
ReconnectDelay_Uncapped(attempts) == 5000 * Pow2(attempts - 1)

ReconnectDelay(attempts) == Min(5000 * Pow2(attempts - 1), 30000)

\* session.reconnectAttempts < config.MAX_RECONNECT_ATTEMPTS
MayReconnect_OffByOne(attempts, max) == attempts <= max

MayReconnect(attempts, max) == attempts < max

Running == proc # "exited"

Frame == UNCHANGED <<whVars, maxReconnectAttempts, proc, signing, bulk,
                   dedup>>

StartsInProgress ==
  Cardinality({k \in tasks : k.kind = "logout" /\ k.origin = "start"})

\* startSession up to its first await or its return: a connected session
\* is returned as it is; any other is disconnected and replaced.
StartSession_NoConnectedCheck(st, t) ==
  LET d == disconnectSession(st, t, "start")
  IN [st |-> IF d.yield THEN d.st ELSE createSession(d.st, t),
      returned |-> FALSE, sessionId |-> 0]

startSession(st, t) ==
  LET s == st.sessions[t]
      d == disconnectSession(st, t, "start")
  IN IF s # NoSession /\ s.status = "connected"
     THEN [st |-> st, returned |-> TRUE, sessionId |-> s.sid]
     ELSE [st |-> IF d.yield THEN d.st ELSE createSession(d.st, t),
           returned |-> FALSE, sessionId |-> 0]

\* POST /sessions/:tenantId/start -> startSession
StartSession(t) ==
  /\ Running
  /\ Commit(startSession(Cur, t).st)
  /\ Frame

\* DELETE /sessions/:tenantId -> disconnectSession
StopSession(t) ==
  /\ Running
  /\ sessions[t] # NoSession
  /\ Commit(disconnectSession(Cur, t, "stop").st)
  /\ Frame

\* socket.logout() has returned: the rest of disconnectSession, and of
\* startSession when it was the caller.
LogoutReturns(k) ==
  /\ Running
  /\ k \in tasks
  /\ k.kind = "logout"
  /\ LET st1 == disconnectTail([Cur EXCEPT !.tasks = @ \ {k}], k.tenant)
     IN Commit(IF k.origin = "start" THEN createSession(st1, k.tenant)
               ELSE st1)
  /\ Frame

\* createBaileysConnection after its awaits: it throws, or it creates the
\* socket and registers the handlers; startSession then goes on with
\* startPersistentQR up to the first sleep of waitForSessionReady.
ConnectionCreated(k, ok) ==
  /\ Running
  /\ k \in tasks
  /\ k.kind = "connect"
  /\ LET t == k.tenant
         st0 == [Cur EXCEPT !.tasks = @ \ {k},
                            !.credDir[t] = IF @ = "absent" THEN "empty"
                                           ELSE @]
     IN IF ~ok
        THEN Commit(Impure(
               WriteSession(
                 WriteSession(st0, t, k.sid, [status |-> "disconnected"]),
                 t, k.tsid, [status |-> "disconnected"]), t))
        ELSE LET id == nextSock + 1
                 st1 == WriteSession(
                          [st0 EXCEPT
                             !.nextSock = id,
                             !.sockets = @ \cup
                                {[id |-> id, tenant |-> t,
                                  opened |-> FALSE]}],
                          t, k.sid, [socket |-> id])
                 st2 == [st1 EXCEPT !.qrSessions[t] =
                           [tid |-> k.sid, qrCode |-> Null,
                            status |-> "generating",
                            regenerationCount |-> 0, stale |-> FALSE]]
                 r == initialPoll(st2, t, k.sid)
             IN Commit(
                  IF k.origin = "timer" THEN st1
                  ELSE IF r.done THEN r.st
                  ELSE [r.st EXCEPT !.tasks = @ \cup
                          {Task("poll", t, k.sid, k.sid, "init", Null,
                                0)}])
  /\ Frame

\* waitForSessionReady of startPersistentQR wakes up: it gives up after
\* 30 s or polls again.
InitialPollWakes(k, timedOut) ==
  /\ Running
  /\ k \in tasks
  /\ k.kind = "poll"
  /\ LET st0 == [Cur EXCEPT !.tasks = @ \ {k}]
         r == initialPoll(st0, k.tenant, k.sid)
     IN Commit(IF timedOut THEN st0
               ELSE IF r.done THEN r.st
               ELSE [r.st EXCEPT !.tasks = @ \cup {k}])
  /\ Frame

\* waitForSessionReady of regenerateQR wakes up.
RegenPollWakes(k, timedOut) ==
  /\ Running
  /\ k \in tasks
  /\ k.kind = "regenPoll"
  /\ LET t == k.tenant
         st0 == [Cur EXCEPT !.tasks = @ \ {k}]
         r == getSessionStatus(st0, t)
     IN Commit(
          IF timedOut
          THEN WriteTracker(st0, t, k.tid, [status |-> "expired"])
          ELSE IF SessionReady(r.resp)
          THEN WriteTracker(r.st, t, k.tid,
                 [qrCode |-> r.st.sessions[t].qrCode, stale |-> FALSE,
                  regenerationCount |->
                     r.st.qrSessions[t].regenerationCount + ReentryDepth,
                  status |-> "available"])
          ELSE [r.st EXCEPT !.tasks = @ \cup {k}])
  /\ Frame

\* connection.update with a pairing code: handleConnectionUpdate up to the
\* await of QRCode.toDataURL
ConnectionUpdateQR(so, qr) ==
  /\ Running
  /\ so \in sockets
  /\ ~so.opened
  /\ sessions[so.tenant] # NoSession
  /\ Commit(Observe(
       [Cur EXCEPT !.tasks = @ \cup
          {Task("qrRender", so.tenant, sessions[so.tenant].sid, 0, "update",
                qr, 0)}],
       so.tenant, [kind |-> "qr"], 0))
  /\ Frame

\* QRCode.toDataURL has returned or thrown: the rest of the qr branch
QRRendered(k, ok) ==
  /\ Running
  /\ k \in tasks
  /\ k.kind = "qrRender"
  /\ Commit(Emit(
       WriteSession([Cur EXCEPT !.tasks = @ \ {k}], k.tenant, k.sid,
                    [qrCode |-> IF ok THEN DataUrl(k.qr) ELSE k.qr,
                     status |-> "qr"]),
       k.tenant, "qr"))
  /\ Frame

\* connection.update with connection = 'open'
ConnectionOpen(so) ==
  /\ Running
  /\ so \in sockets
  /\ ~so.opened
  /\ LET t == so.tenant
         s == sessions[t]
         st0 == [Cur EXCEPT !.sockets =
                    (@ \ {so}) \cup {[so EXCEPT !.opened = TRUE]}]
     IN Commit(
          IF s = NoSession THEN st0
          ELSE Observe(
                 Emit(
                   clearReconnectTimer(
                     markAsConnected(
                       WriteSession(st0, t, s.sid,
                          [status |-> "connected", qrCode |-> Null,
                           reconnectAttempts |-> 0]),
                       t),
                     t),
                   t, "connected"),
                 t, [kind |-> "open"], 0))
  /\ Frame

\* connection.update with connection = 'close'
ConnectionClose(so, loggedOut) ==
  /\ Running
  /\ so \in sockets
  /\ LET t == so.tenant
         s == sessions[t]
         u == [kind |-> "close", loggedOut |-> loggedOut]
         st0 == [Cur EXCEPT !.sockets = @ \ {so}]
         n == s.reconnectAttempts + 1
     IN Commit(
          IF s = NoSession THEN st0
          ELSE IF ~loggedOut
                  /\ MayReconnect(s.reconnectAttempts, maxReconnectAttempts)
          THEN Observe(
                 [WriteSession(st0, t, s.sid, [reconnectAttempts |-> n])
                    EXCEPT !.timers =
                      {[tm EXCEPT !.inMap = (tm.tenant # t /\ @)] :
                          tm \in @}
                      \cup {[tenant |-> t, sid |-> s.sid, attempt |-> n,
                             delay |-> ReconnectDelay(n), inMap |-> TRUE]}],
                 t, u, s.reconnectAttempts)
          ELSE LET st1 == Emit(WriteSession(st0, t, s.sid,
                                            [status |-> "disconnected"]),
                               t, "disconnected")
               IN Observe(
                    IF loggedOut THEN clearSessionData(st1, t)
                    ELSE st1,
                    t, u, s.reconnectAttempts))
  /\ Frame

\* The reconnect timer fires: createBaileysConnection up to its await
ReconnectTimerFires(tm) ==
  /\ Running
  /\ tm \in timers
  /\ LET t == tm.tenant
         st0 == [Cur EXCEPT !.timers = @ \ {tm}]
     IN Commit(
          IF sessions[t] = NoSession THEN st0
          ELSE [st0 EXCEPT !.tasks = @ \cup
                  {Task("connect", t, sessions[t].sid, 0, "timer", Null,
                        tm.sid)}])
  /\ Frame

\* creds.update -> saveCreds writes into the tenant's directory
CredsUpdate(so) ==
  /\ Running
  /\ so \in sockets
  /\ credDir[so.tenant] = "empty"
  /\ credDir' = [credDir EXCEPT ![so.tenant] = "creds"]
  /\ emitted' = NoEvents
  /\ UNCHANGED <<sessions, sockets, nextSock, nextSid, tasks, timers,
                 qrSessions, intervals, expected>>
  /\ Frame

\* GET /sessions/:tenantId/status and /qr -> getSessionStatus
StatusQuery(t) ==
  /\ Running
  /\ LET r == getSessionStatus(Cur, t)
     IN Commit(r.st)
  /\ Frame

\* startCleanupInterval: a disconnected session idle for an hour
IdleSessionCleanup(t) ==
  /\ Running
  /\ sessions[t] # NoSession
  /\ sessions[t].status = "disconnected"
  /\ Commit(cleanupSession(Cur, t))
  /\ Frame

\* The artifact of the tracker gets older than QR_LIFETIME.  The wait of
\* startPersistentQR (30 s) is shorter than the lifetime (45 s).
QRLifetimeElapses(t) ==
  /\ Running
  /\ qrSessions[t] # NoTracker
  /\ ~qrSessions[t].stale
  /\ qrSessions[t].status # "connected"
  /\ ~\E k \in tasks : k.kind = "poll" /\ k.tid = qrSessions[t].tid
  /\ Commit([Cur EXCEPT !.qrSessions[t].stale = TRUE])
  /\ Frame

\* The interval of startRegenerationCycle fires.
RegenerationTick(t) ==
  /\ Running
  /\ intervals[t]
  /\ LET q == qrSessions[t]
     IN Commit(
          IF q = NoTracker \/ q.status = "connected"
          THEN [Cur EXCEPT !.intervals[t] = FALSE]
          ELSE IF q.stale /\ q.regenerationCount < MAX_REGENERATIONS
          THEN regenerateQR(Cur, t)
          ELSE IF q.regenerationCount >= MAX_REGENERATIONS
          THEN [Cur EXCEPT !.intervals[t] = FALSE]
          ELSE Cur)
  /\ Frame

\* cleanExpiredSessions -> stopPersistentQR
CleanExpiredSessions(t) ==
  /\ Running
  /\ qrSessions[t] # NoTracker
  /\ qrSessions[t].stale
  /\ qrSessions[t].status # "connected"
  /\ Commit([Cur EXCEPT !.qrSessions[t] = NoTracker,
                        !.intervals[t] = FALSE])
  /\ Frame

RECURSIVE disconnectAll(_, _)
disconnectAll(st, ts) ==
  IF ts = {} THEN st
  ELSE LET t == CHOOSE x \in ts : TRUE
       IN disconnectAll(disconnectSession(st, t, "shutdown").st, ts \ {t})

\* SIGTERM / SIGINT: disconnectAllSessions up to its await
Sigterm ==
  /\ proc = "running"
  /\ Store(disconnectAll(Cur, {t \in Tenants : sessions[t] # NoSession}))
  /\ proc' = "stopping"
  /\ UNCHANGED <<whVars, maxReconnectAttempts, signing, bulk, dedup>>

\* Promise.allSettled has returned: process.exit
ProcessExit ==
  /\ proc = "stopping"
  /\ ~\E k \in tasks : k.kind = "logout" /\ k.origin = "shutdown"
  /\ proc' = "exited"
  /\ emitted' = NoEvents
  /\ UNCHANGED <<whVars, maxReconnectAttempts, sessions, credDir, sockets,
                 nextSock, nextSid, tasks, timers, qrSessions, intervals,
                 expected, signing, bulk, dedup>>

\* The kinds of message that sendMessage downloads from messageData.mediaUrl
MediaTypes == {"image", "video", "document"}

\* The download of a medium that sendMessage awaits
FetchTask(t, sid, media) ==
  Task("fetch", t, sid, 0, "api", Null, 0) @@ [media |-> media]

\* sendMessage up to its first await, of fetch(mediaUrl) for a medium that
\* has a mediaUrl and of socket.sendMessage for everything else, or to its
\* return when the session is not connected
SendMessage_SocketOnly(st, t, data) ==
  LET s == st.sessions[t]
  IN IF s = NoSession \/ s.socket = 0
     THEN [st |-> st, error |-> "WhatsApp session not connected",
           adapterSend |-> FALSE, fetch |-> FALSE]
     ELSE IF data.type \in MediaTypes /\ data.mediaUrl
     THEN [st |-> [st EXCEPT !.tasks = @ \cup
                     {FetchTask(t, s.sid, data.type)}],
           error |-> Null, adapterSend |-> FALSE, fetch |-> TRUE]
     ELSE [st |-> [st EXCEPT !.tasks = @ \cup
                     {Task("send", t, s.sid, 0, "api", Null, 0)}],
           error |-> Null, adapterSend |-> TRUE, fetch |-> FALSE]

sendMessage(st, t, data) ==
  LET s == st.sessions[t]
  IN IF s = NoSession \/ s.socket = 0 \/ s.status # "connected"
     THEN [st |-> st, error |-> "WhatsApp session not connected",
           adapterSend |-> FALSE, fetch |-> FALSE]
     ELSE IF data.type \in MediaTypes /\ data.mediaUrl
     THEN [st |-> [st EXCEPT !.tasks = @ \cup
                     {FetchTask(t, s.sid, data.type)}],
           error |-> Null, adapterSend |-> FALSE, fetch |-> TRUE]
     ELSE [st |-> [st EXCEPT !.tasks = @ \cup
                     {Task("send", t, s.sid, 0, "api", Null, 0)}],
           error |-> Null, adapterSend |-> TRUE, fetch |-> FALSE]

\* The bodies of POST /messages/:tenantId/send: a type and, or not, a
\* mediaUrl
SendBodies == [type : {"text", "image"}, mediaUrl : BOOLEAN]

\* validateRequestBody(sendMessageSchema): Joi validates with stripUnknown,
\* and the schema has the keys to, message, type, mediaUrls, mediaType,
\* caption and fileName: a mediaUrl of the body does not reach the handler.
validateRequestBody(body) == [type |-> body.type, mediaUrl |-> FALSE]

\* The handler of POST /messages/:tenantId/send, from the body of the
\* request to the first await of sendMessage
PostSend(st, t, body) == sendMessage(st, t, validateRequestBody(body))

\* POST /messages/:tenantId/send -> sendMessage
SendMessage(t, body) ==
  /\ Running
  /\ Commit(PostSend(Cur, t, body).st)
  /\ Frame

\* POST /messages/:tenantId/send-media -> sendMessage with the URL of the
\* uploaded file as mediaUrl
SendMedia(t, media) ==
  /\ Running
  /\ Commit(sendMessage(Cur, t, [type |-> media, mediaUrl |-> TRUE]).st)
  /\ Frame

\* fetch(mediaUrl) of sendMessage has returned, ok, or has failed or
\* answered with a status that is not 2xx: a download that failed throws
\* into the catch of sendMessage, which returns success false with the
\* message of the error, and the route answers with 400; after a download
\* the handler calls sendMessage of the socket that the session object it
\* holds has.
fetchReturns(st, k, ok) ==
  IF ok
  THEN [st |-> [st EXCEPT !.tasks = (@ \ {k}) \cup
                  {Task("send", k.tenant, k.sid, 0, "api", Null, 0)}],
        status |-> 0, error |-> Null, adapterSend |-> TRUE]
  ELSE [st |-> [st EXCEPT !.tasks = @ \ {k}],
        status |-> 400, error |-> "Failed to fetch " \o k.media,
        adapterSend |-> FALSE]

FetchReturns(k, ok) ==
  /\ Running
  /\ k \in tasks
  /\ k.kind = "fetch"
  /\ Commit(fetchReturns(Cur, k, ok).st)
  /\ Frame

\* socket.sendMessage has returned or thrown: sendMessage returns
SendReturns(k) ==
  /\ Running
  /\ k \in tasks
  /\ k.kind = "send"
  /\ Commit([Cur EXCEPT !.tasks = @ \ {k}])
  /\ Frame

(***************************************************************************)
(* POST /messages/:tenantId/send-bulk                                      *)
(***************************************************************************)
NoBulk == [phase |-> "idle"]

\* The clock of a bulk call counts the seconds of the pause since its
\* last call of sendMessage.
BulkSecondMs == 1000

\* The pause after an item that names no delay, in ms
BulkDefaultDelayMs == 2000

\* The values of the delay of an item: 0 for an item that names none
\* (messageData.delay is undefined), or at least 1000 ms
BulkDelays == {0, 1000}

\* The results of a finished loop in the body of the answer
bulkSummary(n, results) ==
  [total |-> n,
   successful |-> Cardinality({j \in 1..Len(results) : results[j].success}),
   failed |-> Cardinality({j \in 1..Len(results) : ~results[j].success})]

\* results.push of item b.i and what follows in the loop: the pause before
\* the next item, or the answer after the last one.
BulkPush_StopAtFailure(b, success) ==
  LET results == Append(b.results, [index |-> b.i, success |-> success])
  IN IF b.i < b.n - 1 /\ success
     THEN [b EXCEPT
             !.phase = "delay",
             !.results = results,
             !.wakeAt = b.clock + (IF b.delay # 0 THEN b.delay
                                   ELSE BulkDefaultDelayMs)]
     ELSE [b EXCEPT
             !.phase = "done",
             !.results = results,
             !.summary = bulkSummary(b.n, results)]

bulkPush(b, success) ==
  LET results == Append(b.results, [index |-> b.i, success |-> success])
  IN IF b.i < b.n - 1
     THEN [b EXCEPT
             !.phase = "delay",
             !.results = results,
             !.wakeAt = b.clock + (IF b.delay # 0 THEN b.delay
                                   ELSE BulkDefaultDelayMs)]
     ELSE [b EXCEPT
             !.phase = "done",
             !.results = results,
             !.summary = bulkSummary(b.n, results)]

\* One pass of the loop from `await whatsappService.sendMessage` of item
\* b.i to the next await of the handler: sendMessage returns at once for a
\* session that is not connected, and waits for the socket otherwise.  The
\* schema of the items has no mediaUrl either, so every item is a text.
bulkSend(st, b) ==
  LET r == sendMessage(st, b.tenant, validateRequestBody(
                                        [type |-> "text", mediaUrl |-> FALSE]))
      b1 == [b EXCEPT !.sends = Append(@, [index |-> b.i, gap |-> b.clock,
                                           socket |-> r.adapterSend]),
                      !.clock = 0]
  IN [st |-> r.st,
      bulk |-> IF r.adapterSend THEN [b1 EXCEPT !.phase = "sending"]
               ELSE bulkPush(b1, FALSE)]

\* POST /messages/:tenantId/send-bulk with n items
PostSendBulk(t, n, delay) ==
  /\ Running
  /\ bulk = NoBulk
  /\ LET b == [phase |-> "sending", tenant |-> t, n |-> n, delay |-> delay,
               i |-> 0, clock |-> 0, wakeAt |-> 0, sends |-> <<>>,
               results |-> <<>>, summary |-> Null]
         r == bulkSend(Cur, b)
     IN Store(r.st) /\ bulk' = r.bulk
  /\ UNCHANGED <<whVars, maxReconnectAttempts, proc, signing, dedup>>

\* socket.sendMessage of the item has returned, ok, or has thrown:
\* sendMessage returns success true or false to the loop.
BulkSendReturns(k, ok) ==
  /\ Running
  /\ bulk.phase = "sending"
  /\ k \in tasks
  /\ k.kind = "send"
  /\ Store([Cur EXCEPT !.tasks = @ \ {k}])
  /\ bulk' = bulkPush(bulk, ok)
  /\ UNCHANGED <<whVars, maxReconnectAttempts, proc, signing, dedup>>

\* The setTimeout of the pause fires, no earlier than its delay: i++ and
\* the next pass of the loop.
BulkDelayEnds ==
  /\ Running
  /\ bulk.phase = "delay"
  /\ bulk.clock >= bulk.wakeAt
  /\ LET r == bulkSend(Cur, [bulk EXCEPT !.i = @ + 1])
     IN Store(r.st) /\ bulk' = r.bulk
  /\ UNCHANGED <<whVars, maxReconnectAttempts, proc, signing, dedup>>

\* A second of a pause passes; the timer of the pause fires up to `late`
\* ms after its time.
BulkSecondPasses(late) ==
  /\ bulk.phase = "delay"
  /\ bulk.clock < bulk.wakeAt + late
  /\ bulk' = [bulk EXCEPT !.clock = @ + BulkSecondMs]
  /\ UNCHANGED <<whVars, maxReconnectAttempts, sessions, credDir, sockets,
                 nextSock, nextSid, tasks, timers, qrSessions, intervals,
                 expected, proc, emitted, signing, dedup>>

\* messages.upsert of a socket with type 'notify'
MessagesUpsert(so, msgs) ==
  /\ so \in sockets
  /\ HandleIncomingMessages(so.tenant, msgs)

(***************************************************************************)
(* The dedup keys of a dispatcher that serves several tenants              *)
(***************************************************************************)

\* Tenant ids are the path segment of the request, and the message ids of
\* POST /webhooks/internal/message are any string: both can hold the
\* separator of the key.
DedupTenants == {"a", "a_b", "b"}
DedupMsgIds == {"c", "b_c"}
DedupKeys == {MessageKey(t, m) : t \in DedupTenants, m \in DedupMsgIds}

NoDedup == [sent |-> [k \in DedupKeys |-> Absent], recorded |-> {},
            dropped |-> {}]

\* processIncomingMessage of a tenant that has an active sink for messages,
\* up to the await of the POST: the message is dropped as a duplicate, or
\* its key is recorded.
DedupMessage(t, m) ==
  /\ dedup' =
        IF isMessageAlreadySent(dedup.sent, t, m)
        THEN [dedup EXCEPT !.dropped = @ \cup {<<t, m>>}]
        ELSE [dedup EXCEPT
                !.sent = markMessageAsSent(@, t, m, 0),
                !.recorded = @ \cup {<<t, m>>}]
  /\ UNCHANGED <<whVars, maxReconnectAttempts, sessions, credDir, sockets,
                 nextSock, nextSid, tasks, timers, qrSessions, intervals,
                 expected, proc, emitted, signing, bulk>>

\* The POST of the message (t, m) has failed for good: the catch of
\* processIncomingMessage deletes the key.
DedupDeliveryFails(t, m) ==
  /\ <<t, m>> \in dedup.recorded
  /\ dedup' = [dedup EXCEPT
                 !.sent[MessageKey(t, m)] = Absent,
                 !.recorded = @ \ {<<t, m>>}]
  /\ UNCHANGED <<whVars, maxReconnectAttempts, sessions, credDir, sockets,
                 nextSock, nextSid, tasks, timers, qrSessions, intervals,
                 expected, proc, emitted, signing, bulk>>

(***************************************************************************)
(* Signatures of the webhook payloads                                      *)
(***************************************************************************)
Payloads == {"p1", "p2", "p3", "p4"}
Secrets == {"k1", "k2", "k3"}

NoSigning == [phase |-> "idle"]

\* crypto.createHmac('sha256', secret).update(payload, 'utf8').digest('hex'):
\* a digest of fixed length that differs whenever the secret or the payload
\* differs.
HmacSha256Hex(secret, payload) == "hmac-" \o secret \o "-" \o payload

\* generateSignature of the dispatcher: what sendWebhook puts into the
\* X-Webhook-Signature header
generateSignature(payload, secret) == HmacSha256Hex(secret, payload)

\* crypto.timingSafeEqual(Buffer.from(a), Buffer.from(b)): it throws a
\* RangeError when the two buffers differ in length.
timingSafeEqual(a, b) ==
  IF Len(a) # Len(b) THEN "throws"
  ELSE IF a = b THEN "true" ELSE "false"

\* WebhookService.validateSignature, the one comparator of the repository
validateSignature(payload, signature, secret) ==
  timingSafeEqual(signature, "sha256=" \o HmacSha256Hex(secret, payload))

\* sendWebhook signs the payload with the secret of the sink.
SignPayload ==
  /\ signing.phase = "unsigned"
  /\ signing' = [signing EXCEPT
                   !.phase = "signed",
                   !.signature = generateSignature(signing.payload,
                                                   signing.secret)]
  /\ UNCHANGED <<whVars, maxReconnectAttempts, sessions, credDir, sockets,
                 nextSock, nextSid, tasks, timers, qrSessions, intervals,
                 expected, proc, emitted, bulk, dedup>>

\* The receiver verifies the signature with the secret it holds.
VerifySignature ==
  /\ signing.phase = "signed"
  /\ signing' = [signing EXCEPT
                   !.phase = "verified",
                   !.verdict = validateSignature(signing.payload,
                                                 signing.signature,
                                                 signing.key)]
  /\ UNCHANGED <<whVars, maxReconnectAttempts, sessions, credDir, sockets,
                 nextSock, nextSid, tasks, timers, qrSessions, intervals,
                 expected, proc, emitted, bulk, dedup>>

SessionIdle ==
  /\ sessions = [t \in Tenants |-> NoSession]
  /\ sockets = {}
  /\ nextSock = 0
  /\ nextSid = 0
  /\ tasks = {}
  /\ timers = {}
  /\ qrSessions = [t \in Tenants |-> NoTracker]
  /\ intervals = [t \in Tenants |-> FALSE]
  /\ expected = [t \in Tenants |-> "none"]
  /\ proc = "running"
  /\ emitted = NoEvents
  /\ signing = NoSigning
  /\ bulk = NoBulk
  /\ dedup = NoDedup

WebhookIdle ==
  /\ webhooks = [t \in Tenants |-> NoWebhook]
  /\ routeWebhooks = [t \in Tenants |-> NoWebhook]
  /\ nextObj = 0
  /\ sentMessages = [k \in AllKeys |-> Absent]
  /\ processedMessages = {}
  /\ inflight = {}
  /\ deliveryLog = {}
  /\ skipped = {}
  /\ lostRetries = {}
  /\ now = 0

InitSession ==
  /\ WebhookIdle
  /\ SessionIdle
  /\ maxReconnectAttempts = 5
  /\ credDir = [t \in Tenants |-> "absent"]

SessionBound(limit) == nextSid + StartsInProgress < limit

SocketBound(limit, ok) == ok => nextSock < limit

\* What the session manager and the pairing tracker do with sessions,
\* sockets, pairing codes and trackers.  The credentials a socket stores
\* (CredsUpdate) are read by none of these steps; SpecShutdown and
\* SpecLifecycle follow them.
NextSession ==
  \/ \E t \in Tenants : SessionBound(MaxSessions) /\ StartSession(t)
  \/ \E t \in Tenants : StopSession(t)
  \/ \E k \in tasks : LogoutReturns(k)
  \/ \E k \in tasks, ok \in BOOLEAN :
        SocketBound(MaxSockets, ok) /\ ConnectionCreated(k, ok)
  \/ \E k \in tasks, timedOut \in BOOLEAN : InitialPollWakes(k, timedOut)
  \/ \E k \in tasks, timedOut \in BOOLEAN : RegenPollWakes(k, timedOut)
  \/ \E so \in sockets, qr \in QRs : ConnectionUpdateQR(so, qr)
  \/ \E k \in tasks, ok \in BOOLEAN : QRRendered(k, ok)
  \/ \E so \in sockets : ConnectionOpen(so)
  \/ \E so \in sockets, loggedOut \in BOOLEAN : ConnectionClose(so, loggedOut)
  \/ \E tm \in timers : ReconnectTimerFires(tm)
  \/ \E t \in Tenants : StatusQuery(t)
  \/ \E t \in Tenants : IdleSessionCleanup(t)
  \/ \E t \in Tenants : QRLifetimeElapses(t)
  \/ \E t \in Tenants : RegenerationTick(t)
  \/ \E t \in Tenants : CleanExpiredSessions(t)

SpecSession == InitSession /\ [][NextSession]_vars

NextShutdown ==
  \/ NextSession
  \/ \E so \in sockets : CredsUpdate(so)
  \/ Sigterm
  \/ ProcessExit

SpecShutdown == InitSession /\ [][NextShutdown]_vars

\* The life cycle of sessions, sockets, reconnect timers and stored
\* credentials over longer runs.  The steps left out (pairing codes, the
\* pairing tracker, status queries) write neither reconnectAttempts, nor
\* the timers, nor the credential directories.
InitLifecycle ==
  /\ WebhookIdle
  /\ SessionIdle
  /\ maxReconnectAttempts \in ConfiguredMaxAttempts
  /\ credDir \in [Tenants -> {"absent", "creds"}]

NextLifecycle ==
  \/ \E t \in Tenants : SessionBound(MaxLifecycleSessions) /\ StartSession(t)
  \/ \E t \in Tenants : StopSession(t)
  \/ \E k \in tasks : LogoutReturns(k)
  \/ \E k \in tasks, ok \in BOOLEAN :
        SocketBound(MaxLifecycleSockets, ok) /\ ConnectionCreated(k, ok)
  \/ \E so \in sockets : ConnectionOpen(so)
  \/ \E so \in sockets, loggedOut \in BOOLEAN : ConnectionClose(so, loggedOut)
  \/ \E tm \in timers : ReconnectTimerFires(tm)
  \/ \E so \in sockets : CredsUpdate(so)
  \/ \E t \in Tenants : IdleSessionCleanup(t)

SpecLifecycle == InitLifecycle /\ [][NextLifecycle]_vars

InitWebhook ==
  /\ WebhookIdle
  /\ SessionIdle
  /\ maxReconnectAttempts = 5
  /\ credDir = [t \in Tenants |-> "absent"]

NextWebhook ==
  \/ \E t \in Tenants : registerWebhook(t, {"message", "status"})
  \/ \E t \in Tenants, msgs \in Batches : HandleIncomingMessages(t, msgs)
  \/ \E d \in inflight, o \in PostOutcomes : SendWebhookResult(d, o)
  \/ \E d \in inflight : SendWebhookRetry(d)
  \/ MessageCacheCleanup
  \/ Tick

SpecWebhook == InitWebhook /\ [][NextWebhook]_vars

\* A bulk call over the life of a session and its socket.
MaxBulkItems == 3
MaxBulkSessions == 1
MaxBulkSockets == 1

\* How late the timer of a pause fires at most
BulkLateMs == BulkSecondMs

NextBulk ==
  \/ \E t \in Tenants : SessionBound(MaxBulkSessions) /\ StartSession(t)
  \/ \E t \in Tenants : StopSession(t)
  \/ \E k \in tasks : LogoutReturns(k)
  \/ \E k \in tasks, ok \in BOOLEAN :
        SocketBound(MaxBulkSockets, ok) /\ ConnectionCreated(k, ok)
  \/ \E so \in sockets : ConnectionOpen(so)
  \/ \E so \in sockets, loggedOut \in BOOLEAN : ConnectionClose(so, loggedOut)
  \/ \E tm \in timers : ReconnectTimerFires(tm)
  \/ \E t \in Tenants, n \in 1..MaxBulkItems, delay \in BulkDelays :
        PostSendBulk(t, n, delay)
  \/ \E k \in tasks, ok \in BOOLEAN : BulkSendReturns(k, ok)
  \/ BulkDelayEnds
  \/ BulkSecondPasses(BulkLateMs)

SpecBulk == InitSession /\ [][NextBulk]_vars

\* Messages of several tenants that pass the dedup of one dispatcher
NextDedup ==
  \/ \E t \in DedupTenants, m \in DedupMsgIds : DedupMessage(t, m)
  \/ \E t \in DedupTenants, m \in DedupMsgIds : DedupDeliveryFails(t, m)

SpecDedup == InitSession /\ [][NextDedup]_vars

\* A payload signed by the dispatcher with one secret and verified by a
\* receiver that holds the same or another secret.
InitSignature ==
  /\ WebhookIdle
  /\ sessions = [t \in Tenants |-> NoSession]
  /\ sockets = {}
  /\ nextSock = 0
  /\ nextSid = 0
  /\ tasks = {}
  /\ timers = {}
  /\ qrSessions = [t \in Tenants |-> NoTracker]
  /\ intervals = [t \in Tenants |-> FALSE]
  /\ expected = [t \in Tenants |-> "none"]
  /\ proc = "running"
  /\ emitted = NoEvents
  /\ maxReconnectAttempts = 5
  /\ credDir = [t \in Tenants |-> "absent"]
  /\ bulk = NoBulk
  /\ dedup = NoDedup
  /\ \E p \in Payloads, s \in Secrets, k \in Secrets :
        signing = [phase |-> "unsigned", payload |-> p, secret |-> s,
                   key |-> k, signature |-> Null, verdict |-> "none"]

NextSignature ==
  \/ SignPayload
  \/ VerifySignature

SpecSignature == InitSignature /\ [][NextSignature]_vars

\* The dispatcher instance of the routes: sinks registered and removed
\* through the public routes and the status changes posted to
\* /webhooks/internal/status.
MaxStatusCalls == 4

NextRoutes ==
  \/ \E t \in Tenants : RegisterSink(t, {"message", "status"})
  \/ \E t \in Tenants : removeWebhook(t)
  \/ \E t \in Tenants :
        /\ Cardinality(StatusCalls(deliveryLog, t)) < MaxStatusCalls
        /\ processStatusChange(t)
  \/ \E d \in inflight, o \in PostOutcomes : StatusWebhookResult(d, o)
  \/ \E d \in inflight : SendWebhookRetry(d)

SpecRoutes == InitWebhook /\ [][NextRoutes]_vars

\* Outbound sends over the life of a session and its sockets.
MaxSendSessions == 1
MaxSendSockets == 2
\* The calls of sendMessage that wait for a download or for the socket
MaxSendCalls == 2

SendCallBound ==
  Cardinality({k \in tasks : k.kind \in {"send", "fetch"}}) < MaxSendCalls

NextSend ==
  \/ \E t \in Tenants : SessionBound(MaxSendSessions) /\ StartSession(t)
  \/ \E t \in Tenants : StopSession(t)
  \/ \E k \in tasks : LogoutReturns(k)
  \/ \E k \in tasks, ok \in BOOLEAN :
        SocketBound(MaxSendSockets, ok) /\ ConnectionCreated(k, ok)
  \/ \E so \in sockets, qr \in QRs : ConnectionUpdateQR(so, qr)
  \/ \E k \in tasks, ok \in BOOLEAN : QRRendered(k, ok)
  \/ \E so \in sockets : ConnectionOpen(so)
  \/ \E so \in sockets, loggedOut \in BOOLEAN : ConnectionClose(so, loggedOut)
  \/ \E tm \in timers : ReconnectTimerFires(tm)
  \/ \E t \in Tenants : IdleSessionCleanup(t)
  \/ \E t \in Tenants, body \in SendBodies :
        SendCallBound /\ SendMessage(t, body)
  \/ \E t \in Tenants, media \in MediaTypes :
        SendCallBound /\ SendMedia(t, media)
  \/ \E k \in tasks, ok \in BOOLEAN : FetchReturns(k, ok)
  \/ \E k \in tasks : SendReturns(k)

SpecSend == InitSession /\ [][NextSend]_vars

\* The gateway as a whole: sessions and their sockets, the sinks of both
\* WebhookService instances and inbound messages on their way from a
\* socket to a sink.  The pairing tracker's polls and the clock are left
\* to SpecSession and SpecWebhook, outbound sends to SpecSend.
MaxGatewaySessions == 1
MaxGatewaySockets == 1

GatewayBatches == {<<Msg("m1", "j1", FALSE, "text")>>}

NextGateway ==
  \/ \E t \in Tenants : registerWebhook(t, {"message", "status"})
  \/ \E t \in Tenants : RegisterSink(t, {"message", "status"})
  \/ \E t \in Tenants : removeWebhook(t)
  \/ \E t \in Tenants : SessionBound(MaxGatewaySessions) /\ StartSession(t)
  \/ \E t \in Tenants : StopSession(t)
  \/ \E k \in tasks : LogoutReturns(k)
  \/ \E k \in tasks, ok \in BOOLEAN :
        SocketBound(MaxGatewaySockets, ok) /\ ConnectionCreated(k, ok)
  \/ \E so \in sockets, qr \in QRs : ConnectionUpdateQR(so, qr)
  \/ \E k \in tasks, ok \in BOOLEAN : QRRendered(k, ok)
  \/ \E so \in sockets : ConnectionOpen(so)
  \/ \E so \in sockets, loggedOut \in BOOLEAN : ConnectionClose(so, loggedOut)
  \/ \E tm \in timers : ReconnectTimerFires(tm)
  \/ \E so \in sockets, msgs \in GatewayBatches : MessagesUpsert(so, msgs)
  \/ \E d \in inflight, o \in PostOutcomes : SendWebhookResult(d, o)
  \/ \E d \in inflight : SendWebhookRetry(d)

SpecGateway == InitSession /\ [][NextGateway]_vars

(***************************************************************************)
(* C1: within the dedup window at most one delivery is started for a       *)
(* (tenantId, messageId) pair, whatever batches notify it, unless every    *)
(* attempt of the earlier delivery failed: of two deliveries of one pair   *)
(* that start no more than the window apart, the earlier one has failed    *)
(* (it is neither still in flight nor successful).                         *)
(***************************************************************************)
C1_OneDeliveryPerWindow ==
  \A d1 \in deliveryLog, d2 \in deliveryLog :
     (/\ d1.tenant = d2.tenant
      /\ d1.messageId = d2.messageId
      /\ d1.n < d2.n
      /\ d2.start - d1.start <= DedupWindowMs)
     => d1.outcome = "failed"

\* A duplicate was dropped by the dispatcher while the first delivery of the
\* message was in flight or had succeeded.
C1_Witness ==
  \E d \in deliveryLog :
     /\ d.outcome # "failed"
     /\ <<d.tenant, d.messageId>> \in skipped
     /\ Cardinality(DeliveriesOf(deliveryLog, d.tenant, d.messageId)) = 1

(***************************************************************************)
(* C2: once every attempt of a delivery has failed and the dedup entry is  *)
(* removed, a later notification of the same message id by the adapter is  *)
(* forwarded to the sink again: no such notification is dropped on the     *)
(* way from the adapter batch to the dispatcher.                           *)
(***************************************************************************)
C2_RetryForwardedEndToEnd == lostRetries = {}

(***************************************************************************)
(* C3: for the updates delivered to a tenant's session, once the handlers  *)
(* of the delivered updates have finished, the status of the session is    *)
(* the one the transition table gives for the updates in delivery order,   *)
(* however their asynchronous handling overlapped.  Stated for the rows of *)
(* the table that a pairing code and state=open select (the close rows are *)
(* the subject of C5): a pairing code followed by open ends in connected.  *)
(***************************************************************************)
HandlersFinished(t) ==
  ~\E k \in tasks : /\ k.kind = "qrRender"
                    /\ k.tenant = t
                    /\ k.sid = sessions[t].sid

C3_StatusFollowsUpdatesInOrder ==
  \A t \in Tenants :
     (/\ sessions[t] # NoSession
      /\ expected[t] \in {"qr", "connected"}
      /\ HandlersFinished(t))
     => sessions[t].status = expected[t]

(***************************************************************************)
(* C4: in every reachable state a session whose status is connected has no *)
(* pairing artifact (qrCode is null), and a status query for a connected   *)
(* tenant returns no qrCode.                                               *)
(***************************************************************************)
C4_ConnectedHasNoQR ==
  \A t \in Tenants :
     (sessions[t] # NoSession /\ sessions[t].status = "connected")
     => /\ sessions[t].qrCode = Null
        /\ getSessionStatus(Cur, t).resp.qrCode = Null

\* A session got connected after its pairing code reached both the session
\* and the tracker (the regeneration cycle had been started).
C4_Witness ==
  \E t \in Tenants :
     /\ sessions[t] # NoSession
     /\ sessions[t].status = "connected"
     /\ qrSessions[t] # NoTracker
     /\ qrSessions[t].status = "connected"
     /\ qrSessions[t].regenerationCount > 0
     /\ getSessionStatus(Cur, t).resp.connected

(***************************************************************************)
(* C5: when a close update with loggedOut = false is handled while         *)
(* reconnectAttempts < max, the status of the session becomes connecting,  *)
(* reconnectAttempts grows by one and a reconnect is scheduled.            *)
(***************************************************************************)
C5_CloseReconnects ==
  [][\A so \in sockets :
       (/\ sessions[so.tenant] # NoSession
        /\ sessions[so.tenant].reconnectAttempts < maxReconnectAttempts
        /\ ConnectionClose(so, FALSE))
       => /\ sessions'[so.tenant].status = "connecting"
          /\ sessions'[so.tenant].reconnectAttempts =
                sessions[so.tenant].reconnectAttempts + 1
          /\ \E tm \in timers' \ timers : tm.tenant = so.tenant]_vars

(***************************************************************************)
(* C6: reconnectAttempts never exceeds the configured                      *)
(* MAX_RECONNECT_ATTEMPTS, and it is 0 immediately after every transition  *)
(* into connected.                                                         *)
(***************************************************************************)
EntersConnected(t) ==
  /\ sessions'[t] # NoSession
  /\ sessions'[t].status = "connected"
  /\ \/ sessions[t] = NoSession
     \/ sessions[t].sid # sessions'[t].sid
     \/ sessions[t].status # "connected"

C6_AttemptsBoundedAndReset ==
  [][\A t \in Tenants :
       /\ sessions'[t] # NoSession
          => sessions'[t].reconnectAttempts <= maxReconnectAttempts
       /\ EntersConnected(t) => sessions'[t].reconnectAttempts = 0]_vars

\* A session that used up its whole reconnect budget, and one that got
\* connected again through a reconnect.
C6_Witness ==
  \E t \in Tenants :
     /\ sessions[t] # NoSession
     /\ sessions[t].status = "connected"
     /\ sessions[t].reconnectAttempts = 0
     /\ nextSid = 1
     /\ \E so \in sockets : so.opened /\ so.id = maxReconnectAttempts + 1

(***************************************************************************)
(* C7: with MAX_RECONNECT_ATTEMPTS = 3 and repeated closes with            *)
(* loggedOut = false, the reconnects are scheduled after 5 s, 10 s and     *)
(* 20 s; the close that finds the three attempts used up sets the status   *)
(* to disconnected, and no reconnect remains scheduled or in progress for  *)
(* the session afterwards.                                                 *)
(***************************************************************************)
ReconnectPending(t) ==
  \/ \E tm \in timers' : tm.tenant = t
  \/ \E k \in tasks' : k.kind = "connect" /\ k.origin = "timer" /\ k.tenant = t

C7_NoReconnectAfterExhaustion ==
  [][\A so \in sockets :
       (/\ maxReconnectAttempts = 3
        /\ sessions[so.tenant] # NoSession
        /\ ConnectionClose(so, FALSE))
       => IF sessions[so.tenant].reconnectAttempts < 3
          THEN \E tm \in timers' \ timers :
                  tm.delay = CASE tm.attempt = 1 -> 5000
                               [] tm.attempt = 2 -> 10000
                               [] OTHER -> 20000
          ELSE /\ sessions'[so.tenant].status = "disconnected"
               /\ ~ReconnectPending(so.tenant)]_vars

(***************************************************************************)
(* C8: the reconnect scheduled for attempt n (reconnectAttempts after the  *)
(* increment, n >= 1) has a delay of exactly min(5000 * 2^(n-1), 30000)    *)
(* ms: 5000, 10000, 20000 and from the fourth attempt on 30000.            *)
(***************************************************************************)
C8_ReconnectDelay ==
  \A tm \in timers :
     /\ tm.attempt >= 1
     /\ tm.delay = CASE tm.attempt = 1 -> 5000
                     [] tm.attempt = 2 -> 10000
                     [] tm.attempt = 3 -> 20000
                     [] OTHER -> 30000

\* The reconnect of a fourth attempt, where the cap applies.
C8_Witness ==
  \E tm \in timers : tm.attempt = 4 /\ tm.delay = 30000

(***************************************************************************)
(* C9: the credentials stored for a tenant are deleted only by an explicit *)
(* logout requested for that tenant (Stop / DELETE) or by a close update   *)
(* with loggedOut = true: by no Start on an existing session, no           *)
(* reconnect and no idle sweep.                                            *)
(***************************************************************************)
ExplicitLogout(t) ==
  \/ StopSession(t)
  \/ \E k \in tasks : /\ k.kind = "logout"
                      /\ k.origin = "stop"
                      /\ k.tenant = t
                      /\ LogoutReturns(k)

UpstreamLogout(t) ==
  \E so \in sockets : so.tenant = t /\ ConnectionClose(so, TRUE)

C9_CredentialsDeletedOnlyByLogout ==
  [][\A t \in Tenants :
       (credDir[t] = "creds" /\ credDir'[t] # "creds")
       => (ExplicitLogout(t) \/ UpstreamLogout(t))]_vars

\* a step of the graceful shutdown that concerns tenant t: the signal
\* handler, or the return of a logout it is waiting for
ShutdownStep(t) ==
  \/ Sigterm
  \/ \E k \in tasks : /\ k.tenant = t
                      /\ k.kind = "logout"
                      /\ k.origin = "shutdown"
                      /\ LogoutReturns(k)

\* a logout of tenant t that a request (Stop, or Start over an existing
\* session) has begun and that has not returned yet
LogoutRequested(t) ==
  \E k \in tasks : k.tenant = t /\ k.kind = "logout" /\ k.origin # "shutdown"

(***************************************************************************)
(* C10: a graceful shutdown on a process signal loses no state: no step of *)
(* the shutdown removes the stored credentials of a tenant (one for which  *)
(* no request has a logout under way), so they still exist when it has     *)
(* completed.                                                              *)
(***************************************************************************)
C10_ShutdownKeepsCredentials ==
  [][\A t \in Tenants :
       (credDir[t] = "creds" /\ ~LogoutRequested(t) /\ ShutdownStep(t))
       => credDir'[t] = "creds"]_vars

(***************************************************************************)
(* C11: when a close update with loggedOut = true is handled for a tenant  *)
(* that has a session, the session becomes disconnected, the tenant's      *)
(* credential directory is absent after the step, the step schedules no    *)
(* reconnect and none remains scheduled or in progress for the tenant, so  *)
(* that the directory stays absent until a Start creates it again.         *)
(***************************************************************************)
C11_UpstreamLogoutPurges ==
  [][\A so \in sockets :
       (sessions[so.tenant] # NoSession /\ ConnectionClose(so, TRUE))
       => /\ sessions'[so.tenant].status = "disconnected"
          /\ credDir'[so.tenant] = "absent"
          /\ timers' \subseteq timers
          /\ ~ReconnectPending(so.tenant)]_vars

(***************************************************************************)
(* C12: when DELETE /sessions/{tenantId} returns, the tenant's credential  *)
(* directory does not exist, whatever the state the request found,         *)
(* including a tenant with no session in memory.  Stated on the states in  *)
(* which the request can return: at once, when disconnectSession has no    *)
(* logout to wait for, or when the logout it waited for returns.           *)
(***************************************************************************)
C12_StopPurgesCredentials ==
  \A t \in Tenants :
     /\ LET d == disconnectSession(Cur, t, "stop")
        IN ~d.yield => d.st.credDir[t] = "absent"
     /\ \A k \in tasks :
           (k.kind = "logout" /\ k.origin = "stop" /\ k.tenant = t)
           => disconnectTail([Cur EXCEPT !.tasks = @ \ {k}],
                             t).credDir[t] = "absent"

(***************************************************************************)
(* C13: Start for a tenant whose session is connected returns the          *)
(* sessionId of that session at once and alters nothing: the session       *)
(* record, its socket, the stored credentials, the pairing tracker, the    *)
(* pending timers and tasks are as before and no event is emitted (so the  *)
(* session_created listener registers no sink).                            *)
(***************************************************************************)
C13_StartOnConnectedIsNoOp ==
  \A t \in Tenants :
     (sessions[t] # NoSession /\ sessions[t].status = "connected")
     => startSession(Cur, t) =
           [st |-> Cur, returned |-> TRUE, sessionId |-> sessions[t].sid]

\* A connected session with an open socket, stored credentials and a
\* pairing tracker: what a Start that went through disconnectSession would
\* destroy.
C13_Witness ==
  \E t \in Tenants :
     /\ sessions[t] # NoSession
     /\ sessions[t].status = "connected"
     /\ \E so \in sockets : so.id = sessions[t].socket /\ so.opened
     /\ credDir[t] = "creds"
     /\ qrSessions[t] # NoTracker

(***************************************************************************)
(* C14: a status query (GET status, GET qr, and every poll of the pairing  *)
(* service, all of which call getSessionStatus) changes neither the status *)
(* of the session nor its pairing artifact: in every reachable state the   *)
(* session that getSessionStatus leaves has the status and the qrCode it   *)
(* found.                                                                  *)
(***************************************************************************)
C14_StatusQueryIsPure ==
  \A t \in Tenants :
     sessions[t] # NoSession
     => LET after == getSessionStatus(Cur, t).st.sessions[t]
        IN /\ after.status = sessions[t].status
           /\ after.qrCode = sessions[t].qrCode

\* An update with a pairing code has been delivered for tenant t and its
\* handler has not emitted the qr event yet.
EventOwed(t) == \E k \in tasks : k.kind = "qrRender" /\ k.tenant = t

(***************************************************************************)
(* C15: the events of a tenant are emitted in the order in which the       *)
(* adapter delivered the updates that cause them: the event of an update   *)
(* (connected, disconnected) is not emitted while the event of an update   *)
(* delivered earlier to the same tenant is still to be emitted.            *)
(***************************************************************************)
C15_EventsInDeliveryOrder ==
  [][\A t \in Tenants :
       emitted'[t] \in {"connected", "disconnected"} => ~EventOwed(t)]_vars

(***************************************************************************)
(* C16: Send for a tenant that has no session, or whose session has a      *)
(* status other than connected, returns the not-connected error without    *)
(* calling the socket's sendMessage and leaves the whole session-manager   *)
(* state as it found it.                                                   *)
(***************************************************************************)
C16_SendRequiresConnected ==
  \A t \in Tenants :
     (sessions[t] = NoSession \/ sessions[t].status # "connected")
     => \A data \in [type : {"text"} \cup MediaTypes, mediaUrl : BOOLEAN] :
           sendMessage(Cur, t, data) =
              [st |-> Cur, error |-> "WhatsApp session not connected",
               adapterSend |-> FALSE, fetch |-> FALSE]

\* A session that has a live socket but shows a pairing code: only the
\* status keeps a Send from reaching the socket.
C16_Witness ==
  \E t \in Tenants :
     /\ sessions[t] # NoSession
     /\ sessions[t].status = "qr"
     /\ SocketLive(Cur, sessions[t].socket)
     /\ ~sendMessage(Cur, t, [type |-> "text", mediaUrl |-> FALSE]).adapterSend

\* The registry reg holds an active sink of tenant t that subscribes to
\* the event.
SinkTakes(reg, t, event) ==
  reg[t] # NoWebhook /\ reg[t].active /\ event \in reg[t].events

\* handleIncomingMessages retains msg and emits it as a message event.
Retained(t, msg) ==
  /\ ~msg.fromMe
  /\ msg.content = "text"
  /\ msg.id # ""
  /\ ProcessedKey(t, msg.remoteJid, msg.id) \notin processedMessages

(***************************************************************************)
(* C17: while a sink registered for a tenant through the public register   *)
(* route subscribes to message, every inbound message the session manager  *)
(* retains and emits for the tenant is posted to that sink, and once only: *)
(* after the batch is handled exactly one delivery of the message id to    *)
(* the sink is under way or done.                                          *)
(***************************************************************************)
C17_RegisteredSinkGetsMessages ==
  [][\A so \in sockets, msgs \in GatewayBatches :
       (/\ SinkTakes(routeWebhooks, so.tenant, "message")
        /\ MessagesUpsert(so, msgs))
       => \A i \in DOMAIN msgs :
             Retained(so.tenant, msgs[i])
             => Cardinality({d \in deliveryLog' :
                               /\ d.tenant = so.tenant
                               /\ d.messageId = msgs[i].id
                               /\ d.sink = routeWebhooks[so.tenant].id
                               /\ d.outcome # "failed"}) = 1]_vars

\* The session of tenant t enters a status in this step: it is created, or
\* its status changes.
EntersStatus(t) ==
  /\ sessions'[t] # NoSession
  /\ \/ sessions[t] = NoSession
     \/ sessions[t].sid # sessions'[t].sid
     \/ sessions[t].status # sessions'[t].status

(***************************************************************************)
(* C18: every transition of a session into connected, disconnected, qr or  *)
(* connecting starts a status_change delivery to the sink of the tenant    *)
(* that subscribes to status.                                              *)
(***************************************************************************)
C18_TransitionsAreDelivered ==
  [][\A t \in Tenants :
       (/\ \/ SinkTakes(webhooks, t, "status")
           \/ SinkTakes(routeWebhooks, t, "status")
        /\ EntersStatus(t)
        /\ sessions'[t].status \in
              {"connected", "disconnected", "qr", "connecting"})
       => \E d \in inflight' \ inflight :
             d.tenant = t /\ d.event = "status_change"]_vars

\* The delivery d, whose POST has come back with outcome o in this step,
\* is waiting to post again.
RetryScheduled(d, o) ==
  /\ SendWebhookResult(d, o)
  /\ [d EXCEPT !.phase = "backoff", !.delay = RetryDelay(d.retryCount)]
        \in inflight'

(***************************************************************************)
(* C19: a delivery makes at most 3 POST attempts, the first and up to 2    *)
(* retries; a retry is scheduled only after a retryable failure (5xx,      *)
(* ECONNREFUSED, ENOTFOUND, ECONNABORTED), and the wait before retry k + 1 *)
(* is min(1000 * 2^k, 5000) ms: 1000 ms before the first retry, 2000 ms    *)
(* before the second.                                                      *)
(***************************************************************************)
C19_RetryPolicy ==
  [][/\ \A e \in inflight' :
          /\ e.retryCount <= 2
          /\ e.phase = "backoff"
             => /\ e.retryCount < 2
                /\ e.delay = CASE e.retryCount = 0 -> 1000
                                [] e.retryCount = 1 -> 2000
     /\ \A d \in inflight, o \in PostOutcomes :
          RetryScheduled(d, o)
          => o \in {"5xx", "ECONNREFUSED", "ENOTFOUND", "ECONNABORTED"}]_vars

\* The third attempt of a delivery is being posted after waits of 1000 and
\* 2000 ms, and a delivery has failed for good.
C19_Witness ==
  /\ \E d \in inflight : d.phase = "posting" /\ d.retryCount = 2
  /\ \E e \in deliveryLog : e.outcome = "failed"

(***************************************************************************)
(* C20: a 4xx answer of the sink is a failure that is not retried: the     *)
(* delivery ends, it is recorded as failed, the error counter of the sink  *)
(* grows and the dedup key of the message is removed.                      *)
(***************************************************************************)
C20_ClientErrorIsFailure ==
  [][\A d \in inflight :
       SendWebhookResult(d, "4xx")
       => /\ d \notin inflight'
          /\ \A e \in DeliveriesOf(deliveryLog', d.tenant, d.messageId) :
                e.outcome = "failed"
          /\ sentMessages'[MessageKey(d.tenant, d.messageId)] = Absent
          /\ webhooks[d.tenant].obj = d.obj
             => webhooks'[d.tenant].errorCount
                  = webhooks[d.tenant].errorCount + 1]_vars

\* The error counter of the sink of tenant t in registry reg passes 10 in
\* this step.
ErrorsPassTen(reg, regAfter, t) ==
  /\ reg[t] # NoWebhook
  /\ regAfter[t] # NoWebhook
  /\ reg[t].errorCount <= 10
  /\ regAfter[t].errorCount > 10

\* A delivery to the sink with the given id starts in this step.
DeliveryStarts(t, id) ==
  \E d \in inflight' \ inflight :
     d.tenant = t /\ d.sink = id /\ d.retryCount = 0 /\ d.phase = "posting"

(***************************************************************************)
(* C21: the step in which the cumulative errorCount of a sink passes 10     *)
(* leaves the sink inactive, and no delivery is started to a sink that is   *)
(* inactive (it stays so until a registration makes it active again).       *)
(***************************************************************************)
C21_FailingSinkDeactivated ==
  [][\A t \in Tenants :
       /\ ErrorsPassTen(webhooks, webhooks', t) => ~webhooks'[t].active
       /\ ErrorsPassTen(routeWebhooks, routeWebhooks', t)
          => ~routeWebhooks'[t].active
       /\ (routeWebhooks[t] # NoWebhook /\ ~routeWebhooks[t].active)
          => ~DeliveryStarts(t, routeWebhooks[t].id)]_vars

C23_DeliveryFailureAbsorbed ==
  \A e \in deliveryLog : e.call # "threw" /\ e.response # "500"

(***************************************************************************)
(* C24: the regenerationCount of a pairing tracker never exceeds 10,        *)
(* whatever timer ticks, getCurrentQR calls and status queries interleave,  *)
(* and a tracker whose count has reached 10 starts no further regeneration. *)
(***************************************************************************)
C24_RegenerationsBounded ==
  \A t \in Tenants :
     qrSessions[t] # NoTracker
     => /\ qrSessions[t].regenerationCount <= MAX_REGENERATIONS
        /\ qrSessions[t].regenerationCount >= MAX_REGENERATIONS
           => regenerateQR(Cur, t) = Cur

\* The tracker of tenant t is as markAsConnected leaves it.
TrackerAtRest(q, interval) ==
  q.status = "connected" /\ q.qrCode = Null /\ ~interval

(***************************************************************************)
(* C25: after markAsConnected the tracker of the tenant has the status      *)
(* connected, no artifact and no regeneration timer, and as long as the     *)
(* tracker is neither started again nor stopped it stays so, whatever       *)
(* generation or regeneration was under way when it was marked.             *)
(***************************************************************************)
C25_MarkConnectedIsFinal ==
  [][\A t \in Tenants :
       /\ (/\ sessions[t] # NoSession
           /\ qrSessions[t] # NoTracker
           /\ \E so \in sockets : so.tenant = t /\ ConnectionOpen(so))
          => TrackerAtRest(qrSessions'[t], intervals'[t])
       /\ (/\ qrSessions[t] # NoTracker
           /\ TrackerAtRest(qrSessions[t], intervals[t])
           /\ qrSessions'[t] # NoTracker
           /\ qrSessions'[t].tid = qrSessions[t].tid)
          => TrackerAtRest(qrSessions'[t], intervals'[t])]_vars

\* The session-manager state after the step.
CurAfter == [sessions |-> sessions', credDir |-> credDir',
             sockets |-> sockets', nextSock |-> nextSock',
             nextSid |-> nextSid', tasks |-> tasks', timers |-> timers',
             qrSessions |-> qrSessions', intervals |-> intervals',
             expected |-> expected', emitted |-> NoEvents]

\* What GET /sessions/:tenantId/qr answers in state st.
QrAnswer(st, t) == getSessionStatus(st, t).resp

\* The periods the claim leaves out: after the step the session is
\* connected, or the tracker has used up its regenerations.
PairingOver(t) ==
  \/ QrAnswer(CurAfter, t).status = "connected"
  \/ /\ qrSessions'[t] # NoTracker
     /\ qrSessions'[t].regenerationCount >= MAX_REGENERATIONS

\* The status of tenant t has been observed as qr: its session holds the
\* pairing code that came with that status (only the open branch of
\* handleConnectionUpdate takes it away again).
ObservedQr(t) ==
  /\ sessions[t] # NoSession
  /\ sessions[t].qrCode # Null
  /\ QrAnswer(Cur, t).qrCode # Null

\* The step leaves the session object of tenant t registered: the session
\* is neither stopped, nor replaced by a new Start, nor swept.
SessionGoesOn(t) ==
  /\ sessions[t] # NoSession
  /\ sessions'[t] # NoSession
  /\ sessions'[t].sid = sessions[t].sid

(***************************************************************************)
(* C26 as stated: a GET /qr that observes the status qr returns a qrCode,   *)
(* and from then on every GET /qr returns one, whatever happens, except     *)
(* after the session is connected or the regenerations are used up.         *)
(***************************************************************************)
C26_PairingCodeAvailable_Original ==
  [][\A t \in Tenants :
       /\ QrAnswer(CurAfter, t).status = "qr"
          => QrAnswer(CurAfter, t).qrCode # Null
       /\ (ObservedQr(t) /\ ~PairingOver(t))
          => QrAnswer(CurAfter, t).qrCode # Null]_vars

(***************************************************************************)
(* C26, amended: a GET /qr that observes the status qr returns a qrCode,    *)
(* and from then on every GET /qr returns one for as long as the session    *)
(* goes on (it is not stopped, started again or swept), except after the    *)
(* session is connected or the regenerations are used up: the pairing code  *)
(* outlives its tracker, which is dropped after 3 x 45 s.                   *)
(***************************************************************************)
C26_PairingCodeAvailable ==
  [][\A t \in Tenants :
       LET after == QrAnswer(CurAfter, t)
       IN \/ after.qrCode # Null
          \/ /\ after.status # "qr"
             /\ ~(/\ SessionGoesOn(t)
                  /\ ObservedQr(t)
                  /\ ~PairingOver(t))]_vars

\* The tracker of a session that shows a pairing code has been dropped
\* as expired, and GET /qr still returns the code.
C26_Witness ==
  \E t \in Tenants :
     /\ sessions[t] # NoSession
     /\ sessions[t].status = "qr"
     /\ qrSessions[t] = NoTracker
     /\ QrAnswer(Cur, t).qrCode # Null

(***************************************************************************)
(* C27: a pairing tracker exists for a tenant only during pairing: no       *)
(* tracker remains for a tenant whose session is connected or whose session *)
(* has been removed.                                                        *)
(***************************************************************************)
C27_TrackerOnlyWhilePairing ==
  \A t \in Tenants :
     (sessions[t] = NoSession \/ sessions[t].status = "connected")
     => qrSessions[t] = NoTracker

\* The batches the handler is tried on: up to two entries, among them a
\* repeated message, one from the account itself, one without text and
\* one that is media only.
InboundEntries ==
  {Msg("m1", "j1", FALSE, "text"), Msg("m1", "j2", FALSE, "text"),
   Msg("m1", "j3", FALSE, "media"), Msg("m1", "j1", TRUE, "text"),
   Msg("m1", "j2", FALSE, "empty")}

InboundBatches ==
  {<<m>> : m \in InboundEntries} \cup
  {<<m1, m2>> : m1 \in InboundEntries, m2 \in InboundEntries}

\* An entry is retained unless it is from the account itself or has
\* neither text nor media.
RetainedEntry(msg) == ~msg.fromMe /\ msg.content \in {"text", "media"}

(***************************************************************************)
(* C28: for each inbound batch the message events emitted are exactly the   *)
(* retained entries of the batch, one event per entry and in batch order;   *)
(* an entry is dropped only if it has fromMe = true or has empty text and   *)
(* no media.                                                                *)
(***************************************************************************)
C28_OneEventPerRetainedEntry ==
  \A t \in Tenants, msgs \in InboundBatches :
     handleIncomingMessagesLoop(DispatchState, t, msgs).events
        = SelectSeq(msgs, RetainedEntry)

(***************************************************************************)
(* C29: a receiver that verifies a payload P with the secret S against the  *)
(* signature the dispatcher attached finds it valid when the dispatcher     *)
(* signed P with S, verify(P, sign(P, S), S) = true, and invalid when the   *)
(* dispatcher signed with another secret, verify(P, sign(P, S'), S) = false.*)
(***************************************************************************)
C29_SignatureRoundTrip ==
  signing.phase = "verified"
  => signing.verdict = IF signing.key = signing.secret THEN "true"
                       ELSE "false"

(***************************************************************************)
(* C30: POST /messages/{tenantId}/send with type image and a mediaUrl       *)
(* downloads the medium before anything reaches the socket, and when the    *)
(* download fails (network error or a status that is not 2xx) the answer is *)
(* HTTP 400 with an error that names the failed fetch and sendMessage of    *)
(* the socket is not called.                                                *)
(***************************************************************************)
C30_FailedFetchRejected ==
  /\ \A t \in Tenants :
        LET r == PostSend(Cur, t, [type |-> "image", mediaUrl |-> TRUE])
        IN (sessions[t] # NoSession /\ sessions[t].status = "connected"
            /\ sessions[t].socket # 0)
           => r.fetch /\ ~r.adapterSend
  /\ \A k \in tasks :
        k.kind = "fetch" /\ k.media = "image"
        => LET r == fetchReturns(Cur, k, FALSE)
           IN /\ r.status = 400
              /\ r.error = "Failed to fetch image"
              /\ ~r.adapterSend
              /\ r.st.tasks = tasks \ {k}

(***************************************************************************)
(* C31: a send-bulk call with n items that name no delay calls sendMessage  *)
(* once per item, one after the other in the order of the items, with at    *)
(* least 2 s between consecutive calls, goes on after an item that failed,  *)
(* and answers with one outcome per item, in order, and a summary with      *)
(* total = n = successful + failed.                                         *)
(***************************************************************************)
C31_BulkSendsInOrder ==
  (bulk # NoBulk /\ bulk.delay = 0)
  => /\ \A j \in 1..Len(bulk.sends) : bulk.sends[j].index = j - 1
     /\ \A j \in 1..Len(bulk.results) : bulk.results[j].index = j - 1
     /\ \A j \in 2..Len(bulk.sends) :
           /\ bulk.sends[j].gap >= BulkDefaultDelayMs
           /\ Len(bulk.results) >= j - 1
     /\ Len(bulk.sends) - 1 <= Len(bulk.results)
     /\ Len(bulk.results) <= Len(bulk.sends)
     /\ Len(bulk.sends) <= bulk.n
     /\ bulk.phase = "done"
        => /\ Len(bulk.sends) = bulk.n
           /\ Len(bulk.results) = bulk.n
           /\ bulk.summary.total = bulk.n
           /\ bulk.summary.successful + bulk.summary.failed = bulk.n
           /\ bulk.summary.successful =
                Cardinality({j \in 1..bulk.n : bulk.results[j].success})

\* A call of three items has ended, its second item failed and its third
\* went out through the socket.
C31_Witness ==
  /\ bulk # NoBulk
  /\ bulk.delay = 0
  /\ bulk.phase = "done"
  /\ bulk.n = 3
  /\ ~bulk.results[2].success
  /\ bulk.results[3].success
  /\ bulk.sends[3].socket

\* The deliveries to the sinks of tenant t that log records as failed for
\* good
FinallyFailed(log, t) == {e \in log : e.tenant = t /\ e.outcome = "failed"}

(***************************************************************************)
(* C32: the error counter of a sink grows once per delivery that finally    *)
(* failed, after its retries are used up or after a failure that is not     *)
(* retried, and not once per POST attempt: a step in which no delivery of   *)
(* the tenant fails for good leaves the counter of its sink as it was.      *)
(***************************************************************************)
C32_ErrorCountPerDelivery ==
  [][\A t \in Tenants :
       (/\ webhooks[t] # NoWebhook
        /\ webhooks'[t] # NoWebhook
        /\ FinallyFailed(deliveryLog', t) = FinallyFailed(deliveryLog, t))
       => webhooks'[t].errorCount = webhooks[t].errorCount]_vars

\* The step takes the session of tenant t into disconnected: its status
\* becomes disconnected, or a Stop takes the session out of the map (the
\* sweep of idle sessions is left aside).
EntersDisconnected(t) ==
  \/ /\ sessions'[t] # NoSession
     /\ sessions'[t].status = "disconnected"
     /\ \/ sessions[t] = NoSession
        \/ sessions[t].sid # sessions'[t].sid
        \/ sessions[t].status # "disconnected"
  \/ /\ sessions[t] # NoSession
     /\ sessions'[t] = NoSession
     /\ ~IdleSessionCleanup(t)

(***************************************************************************)
(* C33: every transition of a session into disconnected (a logged-out       *)
(* close, a close that finds the reconnect budget used up, a connect or a   *)
(* scheduled reconnect that fails, an explicit Stop) emits a disconnected   *)
(* event for the tenant.                                                    *)
(***************************************************************************)
C33_DisconnectedIsEmitted ==
  [][\A t \in Tenants :
       EntersDisconnected(t) => emitted'[t] = "disconnected"]_vars

\* The reconnect timers of tenant t that are pending in the set tms
TimersOf(tms, t) == {tm \in tms : tm.tenant = t}

\* The step ends the reconnecting of tenant t: a Stop has taken its session
\* out of the map, a close with the reason loggedOut has been handled, or
\* an open has been handled.
ReconnectsEnd(t) ==
  /\ sessions[t] # NoSession
  /\ \/ sessions'[t] = NoSession /\ ~IdleSessionCleanup(t)
     \/ \E so \in sockets : so.tenant = t /\ ConnectionClose(so, TRUE)
     \/ \E so \in sockets : so.tenant = t /\ ConnectionOpen(so)

(***************************************************************************)
(* C34: at most one reconnect is pending per tenant at any time, and after  *)
(* a Stop of the tenant, after a logged-out close and after the session     *)
(* becomes connected no reconnect timer scheduled before remains to fire.   *)
(***************************************************************************)
C34_OneReconnectPending ==
  [][\A t \in Tenants :
       /\ Cardinality(TimersOf(timers', t)) <= 1
       /\ ReconnectsEnd(t) => TimersOf(timers', t) = {}]_vars

\* The handle so is not the one the current session of its tenant holds:
\* it belongs to a session that a Start has replaced.
Superseded(so) ==
  /\ sessions[so.tenant] # NoSession
  /\ sessions[so.tenant].socket # so.id

\* The step handles an update of the handle so.
UpdateFrom(so) ==
  \/ ConnectionOpen(so)
  \/ \E loggedOut \in BOOLEAN : ConnectionClose(so, loggedOut)
  \/ CredsUpdate(so)

(***************************************************************************)
(* C35: an update from a superseded adapter handle never changes the        *)
(* status, the artifact, the reconnectAttempts or the credentials of the    *)
(* current session of the tenant.                                           *)
(***************************************************************************)
C35_SupersededHandleIgnored ==
  [][\A so \in sockets :
       (Superseded(so) /\ UpdateFrom(so))
       => /\ sessions'[so.tenant] # NoSession
          /\ sessions'[so.tenant].sid = sessions[so.tenant].sid
          /\ sessions'[so.tenant].status = sessions[so.tenant].status
          /\ sessions'[so.tenant].qrCode = sessions[so.tenant].qrCode
          /\ sessions'[so.tenant].reconnectAttempts =
                sessions[so.tenant].reconnectAttempts
          /\ credDir'[so.tenant] = credDir[so.tenant]]_vars

\* The step calls sendMessage of a socket for tenant t.
AdapterSendInvoked(t) ==
  \E k \in tasks' \ tasks : k.kind = "send" /\ k.tenant = t

\* The connection of tenant t is open: its session is connected and the
\* handle the session holds has raised an open and no close since.
ConnectionIsOpen(t) ==
  /\ sessions[t] # NoSession
  /\ sessions[t].status = "connected"
  /\ \E so \in sockets : so.id = sessions[t].socket /\ so.opened

(***************************************************************************)
(* C36: whenever sendMessage of the socket is called for a tenant, the      *)
(* connection of the tenant is open at that moment: the status of its       *)
(* session is connected and no close has been received since the last open, *)
(* also when a close or a Stop comes between the check of the precondition  *)
(* and the call.                                                            *)
(***************************************************************************)
C36_SendOnlyWhileOpen ==
  [][\A t \in Tenants : AdapterSendInvoked(t) => ConnectionIsOpen(t)]_vars

(***************************************************************************)
(* C37: dedup is isolated per tenant and per message id: a message is       *)
(* dropped as a duplicate only when a delivery of the same tenant and the   *)
(* same message id is on record, never because of the record of another     *)
(* pair of tenant and message id.                                           *)
(***************************************************************************)
C37_DedupIsolated ==
  [][\A t \in DedupTenants, m \in DedupMsgIds :
       (<<t, m>> \in dedup'.dropped /\ <<t, m>> \notin dedup.dropped)
       => <<t, m>> \in dedup.recorded]_vars

\* A regeneration of the artifact of tenant t is in progress: a call of
\* regenerateQR waits in waitForSessionReady.
RegenerationInProgress(t) ==
  \E k \in tasks : k.kind = "regenPoll" /\ k.tenant = t

\* A call of regenerateQR for tenant t in this state passes its early
\* returns and starts a regeneration.
RegenerationStarts(t) ==
  /\ qrSessions[t] # NoTracker
  /\ qrSessions[t].status # "connected"
  /\ qrSessions[t].regenerationCount < MAX_REGENERATIONS

\* A tick of the regeneration interval, a call of getCurrentQR or a status
\* query for tenant t in this state calls regenerateQR.
RegenerationCalled(t) ==
  \/ intervals[t] /\ qrSessions[t] # NoTracker /\ qrSessions[t].stale
  \/ sessions[t] # NoSession /\ QRExpired(Cur, t)

(***************************************************************************)
(* C38: at most one regeneration of the artifact is in progress per tenant  *)
(* at any time: while one is in progress, no tick of the regeneration       *)
(* timer, no Current() call and no status query (those of the pairing       *)
(* service itself included) starts another.                                 *)
(***************************************************************************)
C38_OneRegenerationInProgress ==
  \A t \in Tenants :
     RegenerationInProgress(t)
     => ~(RegenerationCalled(t) /\ RegenerationStarts(t))

\* The session of tenant t is as startSession created it: no update of the
\* adapter has given it an artifact or a status.
FreshSession(t) ==
  /\ sessions[t] # NoSession
  /\ sessions[t].status = "connecting"
  /\ sessions[t].qrCode = Null

(***************************************************************************)
(* C39: the artifact a status query returns for a session in qr is the most *)
(* recent one the adapter delivered for the current session of the tenant:  *)
(* a query made right after the handler has stored an artifact returns that *)
(* artifact and not an older one the pairing tracker holds, and a session   *)
(* that has received none is not answered as qr with the artifact issued    *)
(* for a previous session.                                                  *)
(***************************************************************************)
C39_LatestArtifactReturned ==
  [][\A t \in Tenants :
       /\ \A k \in tasks, ok \in BOOLEAN :
             (/\ k.tenant = t
              /\ QRRendered(k, ok)
              /\ sessions[t] # NoSession
              /\ sessions[t].sid = k.sid)
             => LET answer == QrAnswer(CurAfter, t)
                IN answer.status = "qr"
                   => answer.qrCode = IF ok THEN DataUrl(k.qr) ELSE k.qr
       /\ FreshSession(t) => QrAnswer(Cur, t).status # "qr"]_vars

============================================================================
